---------------------------- MODULE Spec2Model ----------------------------
(***************************************************************************)
(* A relay of the letter ledger: the block store (src/lib/blockchain.js),  *)
(* the serial write queue, the chain synchronisation with fork resolution  *)
(* and the directory report of RelayState (modes/relay/state.js).          *)
(*                                                                         *)
(* Granularity.  The relay is one Node.js process: a task runs until it    *)
(* awaits an operation that leaves the process (a file read or write, an   *)
(* HTTP request, a timer).  JsonStore keeps the parsed file in _data, so   *)
(* get() of a loaded store and the part of update() before save() finish   *)
(* in microtasks of the same turn; every action below is the code between  *)
(* two such awaits, and the completions of the awaited operations may come *)
(* in any order.                                                           *)
(*                                                                         *)
(* Values.  A letter {ownerFingerprint, payload} is a number; the          *)
(* timestamp of a block is the tag of its maker; sha256 over the JSON of   *)
(* a block is the tuple of the hashed fields (an injective hash).          *)
(* relayMetrics and summary are carried into no decision and are left out. *)
(***************************************************************************)
EXTENDS Integers, Sequences, FiniteSets, TLC

\* ------------------------------------------------------------------ bounds
MaxLetters == 2      \* letters submitted through AcceptLetter
MaxPeerLen == 3      \* longest chain a peer relay serves
MaxPeerExt == 2      \* blocks a peer has beyond the prefix it shares with us
MaxLedgerLen == 3    \* longest chain of the ledger-only specification
MaxTimerSyncs == 1   \* syncs started by the sync timer or a nudge

Letters == 1..MaxLetters
PeerLetter == MaxLetters + 1   \* a letter committed on some other relay

\* ------------------------------------------------------------ block store
NullHash == <<>>

\* crypto.js buildBlockHash / hashPayload: sha256 of the block without hash
buildBlockHash(b) == <<b.index, b.timestamp, b.previousHash, b.letters>>

WithHash(b) == [b EXCEPT !.hash = buildBlockHash(b)]

\* blockchain.js createGenesisBlock; ts stands for new Date().toISOString()
createGenesisBlock(ts) ==
    WithHash([index |-> 0, timestamp |-> ts, previousHash |-> NullHash,
              letters |-> <<>>, hash |-> NullHash])

Last(s) == s[Len(s)]

\* the block appendLetterBlock builds on previousBlock
NewBlockKeepsIndex(previousBlock, letter, ts) ==
    WithHash([index |-> previousBlock.index, timestamp |-> ts,
              previousHash |-> previousBlock.hash,
              letters |-> <<letter>>, hash |-> NullHash])

NewBlock(previousBlock, letter, ts) ==
    WithHash([index |-> previousBlock.index + 1, timestamp |-> ts,
              previousHash |-> previousBlock.hash,
              letters |-> <<letter>>, hash |-> NullHash])

\* BlockStore.appendLetterBlock: the chain it writes, from the chain it read
appendLetterBlock(bs, letter, ts) == Append(bs, NewBlock(Last(bs), letter, ts))

\* BlockStore.validateChain(blocks).ok
validateChainNoLink(bs) ==
    /\ Len(bs) > 0
    /\ \A i \in 1..Len(bs) : buildBlockHash(bs[i]) = bs[i].hash

validateChainAnyLength(bs) ==
    \A i \in 1..Len(bs) :
        /\ buildBlockHash(bs[i]) = bs[i].hash
        /\ (i > 1 => bs[i].previousHash = bs[i-1].hash)

validateChain(bs) ==
    /\ Len(bs) > 0
    /\ \A i \in 1..Len(bs) :
          /\ buildBlockHash(bs[i]) = bs[i].hash
          /\ (i > 1 => bs[i].previousHash = bs[i-1].hash)

\* BlockStore.syncFromRemote: "throw" | "kept" | "replaced"
syncOutcomeNoLengthTest(local, remote, force) ==
    IF ~validateChain(remote) THEN "throw" ELSE "replaced"

syncOutcome(local, remote, force) ==
    IF ~validateChain(remote) THEN "throw"
    ELSE IF ~force /\ Len(remote) <= Len(local) THEN "kept"
    ELSE "replaced"

\* the chain the store holds after syncFromRemote
syncFromRemote(local, remote, force) ==
    IF syncOutcome(local, remote, force) = "replaced" THEN remote ELSE local

\* BlockStore.getGenesisHash
getGenesisHash(bs) == IF Len(bs) > 0 THEN bs[1].hash ELSE NullHash

\* letters of a block list, in block order then letter order
RECURSIVE LettersOf(_)
LettersOf(bs) ==
    IF bs = <<>> THEN <<>> ELSE Head(bs).letters \o LettersOf(Tail(bs))

Range(s) == {s[i] : i \in 1..Len(s)}

\* ------------------------------------------------------------------ state
VARIABLES
    storeInit,          \* BlockStore.init() has completed on the active store
    lastSync,           \* outcome of the latest BlockStore.syncFromRemote call
    blocks,             \* blockStore: the chain of the active store
    shelf,              \* chain directories that are not active: key -> chain
    currentGenesisHash, \* key (directory name) of the active chain
    directoryUrl,       \* config.directoryUrl is set
    pendingQueue,       \* this.pendingQueue
    enqueuing,          \* ids pushed by enqueueLetter, persistQueue not yet done
    queueDeferred,      \* ids with a deferred in this.queueDeferred
    resolvedAt,         \* id -> index of the block its waiter resolved with, or -1
    rejected,           \* ids whose waiter was rejected
    submitted,          \* number of AcceptLetter calls so far
    processingQueue,    \* this.processingQueue
    wpc,                \* where the drainQueue worker stands
    wEntry,             \* the entry drainQueue took from the head
    wBlock,             \* the block appendLetterBlock returned for it
    sync,               \* the syncFromDirectory runs: "w" pre-write, "t" timer/nudge
    report,             \* the reportToDirectory run in flight (this._reportPromise)
    timerSyncs,         \* timer or nudge syncs started so far
    selector,           \* a relay list handed to the selector, and what it gave
    dirStore,           \* the directory's JsonStore: its file and its _data
    dirCalls,           \* upsertRelay / updateRelayMetrics calls on the directory
    queueFile,          \* the queue in queue.json on disk
    chainFile,          \* the chain in the active chain file on disk
    persist,            \* the persistQueue calls in flight, by caller
    drain,              \* the drainQueue invocations, by slot
    retryTimers,        \* crash-retry timers set by processQueueSoon's catch
    restarts,           \* process crashes followed by a restart so far
    clears,             \* clearQueue calls so far
    cleared,            \* ids that were in pendingQueue when clearQueue ran
    lastTrigger,        \* what the latest processQueueSoon call did
    reportPromise,      \* this._reportPromise: the run callers join, 0 = null
    reportRuns,         \* the runReport invocations, by slot
    reportCallers,      \* per caller of reportToDirectory: the run whose promise it awaits, 0 = none
    consecutiveReportFailures,  \* this.consecutiveReportFailures
    reportRetryTimer,   \* this._reportRetryTimer: a timeout id, 0 = null
    reportTimeouts,     \* the retry timeouts set and neither fired nor cleared
    lastReportInfo,     \* this.lastReportInfo
    lastSummary,        \* what the latest getManifest / getChainSummary call returned
    probed,             \* the metric fields of one relay's record in the registry
    probe,              \* the probeRelayMetrics call on that relay
    cluster             \* relays registered at one directory: their metrics, chains and queues

ledgerVars == <<storeInit, lastSync, blocks>>
chainVars == <<blocks, shelf, currentGenesisHash>>
queueVars == <<pendingQueue, enqueuing, queueDeferred, resolvedAt, rejected, submitted>>
workerVars == <<processingQueue, wpc, wEntry, wBlock>>
relayVars == <<shelf, currentGenesisHash, directoryUrl, queueVars, workerVars,
               sync, report, timerSyncs>>
selVars == <<selector>>
dirVars == <<dirStore, dirCalls>>
durVars == <<queueFile, chainFile, persist, drain, retryTimers, restarts, clears,
             cleared, lastTrigger>>
repVars == <<reportPromise, reportRuns, reportCallers, consecutiveReportFailures,
             reportRetryTimer, reportTimeouts, lastReportInfo>>
sumVars == <<lastSummary>>
prbVars == <<probed, probe>>
cluVars == <<cluster>>
apartVars == <<selVars, dirVars, durVars, repVars, sumVars, prbVars, cluVars>>
vars == <<ledgerVars, relayVars, apartVars>>

InitGenesis == createGenesisBlock("t_local")
PeerGenesis == createGenesisBlock("t_peer")

NoEntry == [id |-> 0, letter |-> 0, replayedFromBlock |-> -1]
NoBlock == [index |-> -1, timestamp |-> "", previousHash |-> NullHash,
            letters |-> <<>>, hash |-> NullHash]
IdleSync == [pc |-> "idle", remote |-> <<>>, divergeAt |-> -1, orphans |-> <<>>,
             result |-> "", netFail |-> FALSE]
NoSync == [local |-> <<>>, remote |-> <<>>, force |-> FALSE, outcome |-> "none",
           after |-> <<>>]
\* mismatch: this.lastReportInfo.genesisMatch is false
IdleReport == [pc |-> "idle", genesis |-> NullHash, mismatch |-> FALSE]
SyncProcs == {"w", "t"}
NoSelection == [relays |-> <<>>, done |-> FALSE, latencyScores |-> <<>>, best |-> 0,
                outcome |-> ""]


\* bounds of the directory registry
MaxDirCalls == 3      \* upsertRelay / updateRelayMetrics calls made
MaxManifestLen == 2   \* longest hash list a relay reports
MaxHashes == 2        \* distinct block hashes per position

\* directory/state.js defaults (on disk), and a store not yet loaded
EmptyRegistry == [relays |-> [o \in {} |-> <<>>], canonicalManifest |-> <<>>]
NoCall == [kind |-> "", onion |-> "", hashes |-> <<>>, pc |-> "new", at |-> 0]

SelectorAtRest == selector = NoSelection

DirectoryAtRest ==
    /\ dirStore = [file |-> EmptyRegistry, data |-> <<>>]
    /\ dirCalls = [c \in 1..MaxDirCalls |-> NoCall]

\* bounds of the durable write queue
MaxWorkers == 2       \* drainQueue invocations that can be followed at once
MaxRestarts == 1      \* process crashes followed by a restart
MaxClears == 1        \* clearQueue calls

\* the callers of persistQueue: enqueueLetter of an id, a drainQueue
\* invocation, clearQueue
EnqueueWriter(id) == id
DrainWriter(s) == MaxLetters + s
ClearWriter == MaxLetters + MaxWorkers + 1
Writers == 1..ClearWriter
Workers == 1..MaxWorkers

NoTrigger == [by |-> "", did |-> ""]
NoPersist == [pc |-> "idle", content |-> <<>>]
IdleDrain == [pc |-> "idle", entry |-> NoEntry, block |-> NoBlock, wait |-> 0]

\* a relay after init() on an empty data directory: empty queue.json, the
\* chain file holds what BlockStore.init wrote, no worker, no timer
DurableAtRest ==
    /\ queueFile = <<>>
    /\ chainFile = <<InitGenesis>>
    /\ persist = [w \in Writers |-> NoPersist]
    /\ drain = [s \in Workers |-> IdleDrain]
    /\ retryTimers = 0
    /\ restarts = 0
    /\ clears = 0
    /\ cleared = {}
    /\ lastTrigger = NoTrigger

\* bounds of the heartbeat reports
MaxRuns == 2          \* runReport invocations that can be followed at once
MaxTimeouts == 2      \* retry timeouts that can be followed at once
MaxFailures == 16     \* consecutive failed reports

BackoffStepMs == 2000
BackoffCapMs == 30000

\* the triggers reportToDirectory is called with
Callers == {"auto-interval", "post-block", "api-report", "retry"}
Runs == 1..MaxRuns

\* lastReportInfo after the constructor; -1 stands for a field that is absent
InitReportInfo == [delivered |-> FALSE, skipped |-> FALSE, trigger |-> "init",
                   backoffMs |-> -1, consecutiveFailures |-> 0]
IdleRun == [pc |-> "idle", trigger |-> ""]

ReportsAtRest ==
    /\ reportPromise = 0
    /\ reportRuns = [r \in Runs |-> IdleRun]
    /\ reportCallers = [c \in Callers |-> 0]
    /\ consecutiveReportFailures = 0
    /\ reportRetryTimer = 0
    /\ reportTimeouts = {}
    /\ lastReportInfo = InitReportInfo

NoSummary == [read |-> FALSE, manifest |-> <<>>, summary |-> <<>>]

SummaryAtRest == lastSummary = NoSummary

\* bound of the reachability probe
MaxProbes == 2        \* probes of the relay that are followed

NoMetrics == [latencyMs |-> <<>>, reachability |-> <<>>, gfwBlocked |-> <<>>]
IdleProbe == [pc |-> "idle", metrics |-> NoMetrics, made |-> 0]

\* the relay is not registered and no probe runs
ProbeAtRest == probed = <<>> /\ probe = IdleProbe

NoCluster == [relays |-> <<>>, chain |-> <<>>, queue |-> <<>>, resolved |-> {},
              submitted |-> 0]

\* no cluster is followed
ClusterAtRest == cluster = NoCluster

\* the parts of the system a relay's pipeline does not touch, at rest
ApartInit ==
    /\ SelectorAtRest /\ DirectoryAtRest /\ DurableAtRest /\ ReportsAtRest
    /\ SummaryAtRest /\ ProbeAtRest /\ ClusterAtRest

\* RelayState after init() on an empty data directory with the default config
PipelineAtRest ==
    /\ storeInit = TRUE
    /\ lastSync = NoSync
    /\ blocks = <<InitGenesis>>
    /\ shelf = [k \in {} |-> <<>>]
    /\ currentGenesisHash = InitGenesis.hash
    /\ directoryUrl = TRUE
    /\ pendingQueue = <<>>
    /\ enqueuing = {}
    /\ queueDeferred = {}
    /\ resolvedAt = [l \in Letters |-> -1]
    /\ rejected = {}
    /\ submitted = 0
    /\ processingQueue = FALSE
    /\ wpc = "idle"
    /\ wEntry = NoEntry
    /\ wBlock = NoBlock
    /\ sync = [p \in SyncProcs |-> IdleSync]
    /\ report = IdleReport
    /\ timerSyncs = 0

RelayInit == PipelineAtRest /\ ApartInit

\* ------------------------------------------------------------ sync engine
Min(a, b) == IF a <= b THEN a ELSE b

\* positions (from 1) below both lengths where the hashes differ
DiffAt(local, remote) ==
    {i \in 1..Min(Len(local), Len(remote)) : local[i].hash # remote[i].hash}

FirstOf(S) == CHOOSE i \in S : \A j \in S : i <= j

\* RelayState.detectChainConflict; divergeAt counts from 0 as the code does
shouldReplaceOnlyLonger(local, remote) == Len(remote) > Len(local)

shouldReplace(local, remote) == Len(remote) >= Len(local)

detectChainConflict(local, remote) ==
    IF remote = <<>> \/ local = <<>> \/ DiffAt(local, remote) = {}
    THEN [found |-> FALSE, divergeAt |-> -1, orphanedBlocks |-> <<>>,
          shouldReplace |-> FALSE]
    ELSE LET i == FirstOf(DiffAt(local, remote)) IN
         [found |-> TRUE, divergeAt |-> i - 1,
          orphanedBlocks |-> SubSeq(local, i, Len(local)),
          shouldReplace |-> shouldReplace(local, remote)]

\* RelayState.requeueOrphanedLetters: the entries it pushes (fresh ids, which
\* never get a deferred, are all written 0)
RECURSIVE ReplayEntries(_)
ReplayEntries(orphanedBlocks) ==
    IF orphanedBlocks = <<>> THEN <<>>
    ELSE LET b == Head(orphanedBlocks) IN
         [j \in 1..Len(b.letters) |->
             [id |-> 0, letter |-> b.letters[j], replayedFromBlock |-> b.index]]
         \o ReplayEntries(Tail(orphanedBlocks))

\* a peer's chain: a prefix it shares with us, then blocks of its own
RECURSIVE PeerChain(_, _)
PeerChain(prefix, e) ==
    IF e = 0 THEN prefix
    ELSE PeerChain(Append(prefix,
                          IF prefix = <<>> THEN PeerGenesis
                          ELSE NewBlock(Last(prefix), PeerLetter, "t_peer")),
                   e - 1)

\* the valid chains GET <peer>/api/blocks/full may return
RemoteChoices(local) ==
    {PeerChain(SubSeq(local, 1, k), e) :
        <<k, e>> \in {x \in (0..Len(local)) \X (0..MaxPeerExt) :
                          x[1] + x[2] >= 1 /\ x[1] + x[2] <= MaxPeerLen}}

\* RelayState.processQueueSoon
ProcessQueueSoon ==
    IF processingQueue
    THEN UNCHANGED <<processingQueue, wpc>>
    ELSE processingQueue' = TRUE /\ wpc' = "loop"

\* the end of a syncFromDirectory run: the pre-write run hands its result to
\* ensureFreshChainBeforeWrite, the timer's caller only logs it
SyncEnd(p, res, nf) ==
    IF p = "w"
    THEN [IdleSync EXCEPT !.pc = "done", !.result = res, !.netFail = nf]
    ELSE IdleSync

\* server.js syncTimer and POST /api/sync: syncFromDirectory lines 458-461.
\* Without a directoryUrl the call returns {skipped} and changes nothing.
TimerSyncStart ==
    /\ sync["t"].pc = "idle"
    /\ timerSyncs < MaxTimerSyncs
    /\ directoryUrl
    /\ sync' = [sync EXCEPT !["t"].pc = "relays"]
    /\ timerSyncs' = timerSyncs + 1
    /\ UNCHANGED <<ledgerVars, shelf, currentGenesisHash, directoryUrl, queueVars,
                   workerVars, report>>
    /\ UNCHANGED apartVars

\* chooseRelay answered (lines 461-468): out is what the directory's list gives
SyncRelaysReply(p, out) ==
    /\ sync[p].pc = "relays"
    /\ sync' = [sync EXCEPT ![p] =
          CASE out = "unreachable" -> SyncEnd(p, "No alternate relay available", TRUE)
            [] out = "no_alternate" -> SyncEnd(p, "No alternate relay available", FALSE)
            [] out = "no_url" -> SyncEnd(p, "Relay lacks URL", FALSE)
            [] OTHER -> [@ EXCEPT !.pc = "blocks"]]
    /\ UNCHANGED <<ledgerVars, shelf, currentGenesisHash, directoryUrl, queueVars,
                   workerVars, report, timerSyncs>>
    /\ UNCHANGED apartVars

RelaysOutcomes == {"unreachable", "no_alternate", "no_url", "peer"}

\* safeFetch(target) failed or carried no blocks (lines 468-471)
SyncBlocksFailed(p) ==
    /\ sync[p].pc = "blocks"
    /\ sync' = [sync EXCEPT ![p] = SyncEnd(p, "Failed to fetch blocks", TRUE)]
    /\ UNCHANGED <<ledgerVars, shelf, currentGenesisHash, directoryUrl, queueVars,
                   workerVars, report, timerSyncs>>
    /\ UNCHANGED apartVars

\* the peer's blocks arrived (lines 472-477 and, without a fork to resolve,
\* 489 up to the save inside syncFromRemote)
SyncBlocksReply(p, remoteBlocks) ==
    /\ sync[p].pc = "blocks"
    /\ LET conflict == detectChainConflict(blocks, remoteBlocks) IN
       IF conflict.shouldReplace
       THEN /\ sync' = [sync EXCEPT ![p] = [@ EXCEPT !.pc = "snapshot",
                           !.remote = remoteBlocks,
                           !.divergeAt = conflict.divergeAt,
                           !.orphans = conflict.orphanedBlocks]]
            /\ UNCHANGED blocks
       ELSE /\ blocks' = syncFromRemote(blocks, remoteBlocks, FALSE)
            /\ sync' = [sync EXCEPT ![p] =
                  IF syncOutcome(blocks, remoteBlocks, FALSE) = "replaced"
                  THEN [@ EXCEPT !.pc = "save"]
                  ELSE SyncEnd(p, syncOutcome(blocks, remoteBlocks, FALSE), FALSE)]
    /\ UNCHANGED <<storeInit, lastSync, shelf, currentGenesisHash, directoryUrl,
                   queueVars, workerVars, report, timerSyncs>>
    /\ UNCHANGED apartVars

\* the forced replacement of a fork resolution (lines 479-489)
ForkReplace(p) ==
    /\ blocks' = syncFromRemote(blocks, sync[p].remote, TRUE)
    /\ sync' = [sync EXCEPT ![p] =
          IF syncOutcome(blocks, sync[p].remote, TRUE) = "replaced"
          THEN [@ EXCEPT !.pc = "save"]
          ELSE SyncEnd(p, "throw", FALSE)]

\* snapshotConflictChain wrote its file (or failed, which is only logged);
\* requeueOrphanedLetters pushes the entries and starts persisting them; with
\* no letter to replay it returns at once and the replacement follows
SyncSnapshotDone(p) ==
    /\ sync[p].pc = "snapshot"
    /\ IF ReplayEntries(sync[p].orphans) = <<>>
       THEN ForkReplace(p) /\ UNCHANGED pendingQueue
       ELSE /\ pendingQueue' = pendingQueue \o ReplayEntries(sync[p].orphans)
            /\ sync' = [sync EXCEPT ![p].pc = "requeue"]
            /\ UNCHANGED blocks
    /\ UNCHANGED <<storeInit, lastSync, shelf, currentGenesisHash, directoryUrl,
                   enqueuing, queueDeferred, resolvedAt, rejected, submitted,
                   workerVars, report, timerSyncs>>
    /\ UNCHANGED apartVars

\* persistQueue of requeueOrphanedLetters finished (lines 305-307, 479-489)
SyncRequeuePersisted(p) ==
    /\ sync[p].pc = "requeue"
    /\ ProcessQueueSoon
    /\ ForkReplace(p)
    /\ UNCHANGED <<storeInit, lastSync, shelf, currentGenesisHash, directoryUrl,
                   queueVars, wEntry, wBlock, report, timerSyncs>>
    /\ UNCHANGED apartVars

\* the save of the replaced chain finished (lines 489-491)
SyncSaved(p) ==
    /\ sync[p].pc = "save"
    /\ sync' = [sync EXCEPT ![p] = SyncEnd(p, "replaced", FALSE)]
    /\ UNCHANGED <<ledgerVars, shelf, currentGenesisHash, directoryUrl, queueVars,
                   workerVars, report, timerSyncs>>
    /\ UNCHANGED apartVars

\* ---------------------------------------------------------- write pipeline
Shift(q) == IF q = <<>> THEN q ELSE Tail(q)

QueueIdsOf(q) == {q[i].id : i \in 1..Len(q)}

\* POST /api/letters -> acceptLetter -> enqueueLetter up to its await of
\* persistQueue (lines 135-145).  Letters are submitted in the order of their
\* numbers, so the id of a submitted entry is its place in the push order.
AcceptLetter(l) ==
    /\ l = submitted + 1
    /\ l \in Letters
    /\ submitted' = l
    /\ pendingQueue' = Append(pendingQueue,
                              [id |-> l, letter |-> l, replayedFromBlock |-> -1])
    /\ enqueuing' = enqueuing \cup {l}
    /\ UNCHANGED <<ledgerVars, shelf, currentGenesisHash, directoryUrl, queueDeferred,
                   resolvedAt, rejected, workerVars, sync, report, timerSyncs>>
    /\ UNCHANGED apartVars

\* enqueueLetter after persistQueue (lines 146-149)
EnqueuePersisted(id) ==
    /\ id \in enqueuing
    /\ enqueuing' = enqueuing \ {id}
    /\ queueDeferred' = queueDeferred \cup {id}
    /\ ProcessQueueSoon
    /\ UNCHANGED <<ledgerVars, shelf, currentGenesisHash, directoryUrl, pendingQueue,
                   resolvedAt, rejected, submitted, wEntry, wBlock, sync, report, timerSyncs>>
    /\ UNCHANGED apartVars

\* ensureFreshChainBeforeWrite (lines 498-521) on the result of the sync:
\* TRUE when it returns, FALSE when it throws the error tagged 503
preWriteReturns(result) ==
    result \in {"No directory configured", "No alternate relay available",
                "kept", "replaced"}

\* drainQueue at the head of its loop (lines 170-173), processQueueEntry and
\* ensureFreshChainBeforeWrite up to the first request of syncFromDirectory
DrainLoop ==
    /\ wpc = "loop"
    /\ IF pendingQueue = <<>>
       THEN /\ processingQueue' = FALSE
            /\ wpc' = "idle"
            /\ wEntry' = NoEntry
            /\ UNCHANGED sync
       ELSE /\ wEntry' = Head(pendingQueue)
            /\ wpc' = "presync"
            /\ sync' = [sync EXCEPT !["w"] =
                  IF directoryUrl THEN [IdleSync EXCEPT !.pc = "relays"]
                  ELSE SyncEnd("w", "No directory configured", FALSE)]
            /\ UNCHANGED processingQueue
    /\ wBlock' = NoBlock
    /\ UNCHANGED <<ledgerVars, shelf, currentGenesisHash, directoryUrl, queueVars,
                   report, timerSyncs>>
    /\ UNCHANGED apartVars

\* processQueueEntry after ensureFreshChainBeforeWrite returned (line 199):
\* appendLetterBlock reads the chain, builds the block and writes the chain
WorkerAppend ==
    /\ wpc = "presync"
    /\ sync["w"].pc = "done"
    /\ preWriteReturns(sync["w"].result)
    /\ blocks' = appendLetterBlock(blocks, wEntry.letter, "t_local")
    /\ wBlock' = Last(blocks')
    /\ wpc' = "append_save"
    /\ sync' = [sync EXCEPT !["w"] = IdleSync]
    /\ UNCHANGED <<storeInit, lastSync, shelf, currentGenesisHash, directoryUrl,
                   queueVars, processingQueue, wEntry, report, timerSyncs>>
    /\ UNCHANGED apartVars

\* ensureFreshChainBeforeWrite threw (statusCode 503): drainQueue's catch keeps
\* the entry and waits (lines 177-182)
WorkerSyncRefused ==
    /\ wpc = "presync"
    /\ sync["w"].pc = "done"
    /\ ~preWriteReturns(sync["w"].result)
    /\ wpc' = "backoff"
    /\ sync' = [sync EXCEPT !["w"] = IdleSync]
    /\ UNCHANGED <<ledgerVars, shelf, currentGenesisHash, directoryUrl, queueVars,
                   processingQueue, wEntry, wBlock, report, timerSyncs>>
    /\ UNCHANGED apartVars

\* wait(retryDelayMs) elapsed; continue (lines 181-182)
WorkerRetry ==
    /\ wpc = "backoff"
    /\ wpc' = "loop"
    /\ UNCHANGED <<ledgerVars, shelf, currentGenesisHash, directoryUrl, queueVars,
                   processingQueue, wEntry, wBlock, sync, report, timerSyncs>>
    /\ UNCHANGED apartVars

\* the worker's await of reportToDirectory ended: return block, shift, and the
\* start of persistQueue (lines 205, 174-175)
ResumeWorker ==
    IF wpc = "report_wait"
    THEN pendingQueue' = Shift(pendingQueue) /\ wpc' = "persist_ok"
    ELSE UNCHANGED <<pendingQueue, wpc>>

\* the chain file was saved; reportToDirectory('post-block') (lines 200-201,
\* 360-382): joins the report in flight, returns at once without a
\* directoryUrl, else posts the heartbeat
WorkerAppendSaved ==
    /\ wpc = "append_save"
    /\ IF report.pc # "idle"
       THEN wpc' = "report_wait" /\ UNCHANGED <<pendingQueue, report>>
       ELSE IF ~directoryUrl
       THEN /\ pendingQueue' = Shift(pendingQueue)
            /\ wpc' = "persist_ok"
            /\ UNCHANGED report
       ELSE /\ report' = [IdleReport EXCEPT !.pc = "post", !.mismatch = report.mismatch]
            /\ wpc' = "report_wait"
            /\ UNCHANGED pendingQueue
    /\ UNCHANGED <<ledgerVars, shelf, currentGenesisHash, directoryUrl, enqueuing,
                   queueDeferred, resolvedAt, rejected, submitted, processingQueue,
                   wEntry, wBlock, sync, timerSyncs>>
    /\ UNCHANGED apartVars

\* store.save() of appendLetterBlock failed: the error carries neither
\* retryable nor statusCode, the entry is dropped (lines 178, 184-189)
WorkerAppendSaveFailed ==
    /\ wpc = "append_save"
    /\ pendingQueue' = Shift(pendingQueue)
    /\ wpc' = "persist_drop"
    /\ UNCHANGED <<ledgerVars, shelf, currentGenesisHash, directoryUrl, enqueuing,
                   queueDeferred, resolvedAt, rejected, submitted, processingQueue,
                   wEntry, wBlock, sync, report, timerSyncs>>
    /\ UNCHANGED apartVars

\* persistQueue after the shift finished: resolveQueueEntry (lines 176, 208-214)
WorkerPersisted ==
    /\ wpc = "persist_ok"
    /\ IF wEntry.id \in queueDeferred
       THEN /\ resolvedAt' = [resolvedAt EXCEPT ![wEntry.id] = wBlock.index]
            /\ queueDeferred' = queueDeferred \ {wEntry.id}
       ELSE UNCHANGED <<resolvedAt, queueDeferred>>
    /\ wpc' = "loop"
    /\ UNCHANGED <<ledgerVars, shelf, currentGenesisHash, directoryUrl, pendingQueue,
                   enqueuing, rejected, submitted, processingQueue, wEntry, wBlock,
                   sync, report, timerSyncs>>
    /\ UNCHANGED apartVars

\* persistQueue after the drop finished: rejectQueueEntry (lines 190, 216-222)
WorkerDropPersisted ==
    /\ wpc = "persist_drop"
    /\ IF wEntry.id \in queueDeferred
       THEN /\ rejected' = rejected \cup {wEntry.id}
            /\ queueDeferred' = queueDeferred \ {wEntry.id}
       ELSE UNCHANGED <<rejected, queueDeferred>>
    /\ wpc' = "loop"
    /\ UNCHANGED <<ledgerVars, shelf, currentGenesisHash, directoryUrl, pendingQueue,
                   enqueuing, resolvedAt, submitted, processingQueue, wEntry, wBlock,
                   sync, report, timerSyncs>>
    /\ UNCHANGED apartVars

\* ------------------------------------------------------- directory report
\* the genesis hashes POST /api/relays may answer with (the first hash of the
\* directory's canonical manifest): this relay's first chain, or a peer's
DirectoryGenesisChoices == {InitGenesis.hash, PeerGenesis.hash}

\* server.js reportTimer, POST /api/report: reportToDirectory with no report in
\* flight and a directoryUrl (lines 360-401); without one it only records
\* {skipped}, with one in flight it joins
TimerReportStart ==
    /\ report.pc = "idle"
    /\ directoryUrl
    /\ report' = [IdleReport EXCEPT !.pc = "post", !.mismatch = report.mismatch]
    /\ UNCHANGED <<ledgerVars, shelf, currentGenesisHash, directoryUrl, queueVars,
                   workerVars, sync, timerSyncs>>
    /\ UNCHANGED apartVars

\* the POST failed (lines 426-449): the report ends with delivered: false
ReportFailed ==
    /\ report.pc = "post"
    /\ report' = IdleReport
    /\ ResumeWorker
    /\ UNCHANGED <<ledgerVars, shelf, currentGenesisHash, directoryUrl, enqueuing,
                   queueDeferred, resolvedAt, rejected, submitted, processingQueue,
                   wEntry, wBlock, sync, timerSyncs>>
    /\ UNCHANGED apartVars

\* ensureChainForGenesis returns at once (lines 559-561)
genesisIsCurrent(g) == g = currentGenesisHash

\* genesisMatch of lines 403-407; true when the answer names no genesis
genesisMatch(g) == g = NullHash \/ getGenesisHash(blocks) = g

\* the directory answered (lines 401-425); g = NullHash: no genesisHash in it
ReportReply(g) ==
    /\ report.pc = "post"
    /\ IF g = NullHash \/ genesisIsCurrent(g)
       THEN /\ report' = [IdleReport EXCEPT !.mismatch = ~genesisMatch(g)]
            /\ ResumeWorker
       ELSE /\ report' = [pc |-> "switch", genesis |-> g, mismatch |-> ~genesisMatch(g)]
            /\ UNCHANGED <<pendingQueue, wpc>>
    /\ UNCHANGED <<ledgerVars, shelf, currentGenesisHash, directoryUrl, enqueuing,
                   queueDeferred, resolvedAt, rejected, submitted, processingQueue,
                   wEntry, wBlock, sync, timerSyncs>>
    /\ UNCHANGED apartVars

\* ensureChainForGenesis (lines 563-586): a BlockStore on chains/<g>/blocks.json
\* becomes the active store; init() writes a fresh genesis block into an empty
\* one.  The store's first read of its file is taken together with init().
ReportSwitch ==
    /\ report.pc = "switch"
    /\ LET dirs == (currentGenesisHash :> blocks) @@ shelf
           g == report.genesis IN
       /\ blocks' = IF g \in DOMAIN dirs THEN dirs[g]
                    ELSE <<createGenesisBlock("t_reinit")>>
       /\ shelf' = [k \in (DOMAIN dirs) \ {g} |-> dirs[k]]
       /\ currentGenesisHash' = g
    /\ report' = [report EXCEPT !.pc = "cfgsave"]
    /\ UNCHANGED <<storeInit, lastSync, directoryUrl, queueVars, workerVars, sync, timerSyncs>>
    /\ UNCHANGED apartVars

\* config.update({activeGenesisHash}) was saved; the report ends (lines 586, 409-425)
ReportConfigSaved ==
    /\ report.pc = "cfgsave"
    /\ report' = [IdleReport EXCEPT !.mismatch = report.mismatch]
    /\ ResumeWorker
    /\ UNCHANGED <<ledgerVars, shelf, currentGenesisHash, directoryUrl, enqueuing,
                   queueDeferred, resolvedAt, rejected, submitted, processingQueue,
                   wEntry, wBlock, sync, timerSyncs>>
    /\ UNCHANGED apartVars

\* POST /api/config or updateDirectoryUrl: directoryUrl set or emptied
UpdateDirectoryUrl ==
    /\ directoryUrl' = ~directoryUrl
    /\ UNCHANGED <<ledgerVars, shelf, currentGenesisHash, queueVars, workerVars,
                   sync, report, timerSyncs>>
    /\ UNCHANGED apartVars

\* ------------------------------------------------------------ the relay
EnqueueStep ==
    \/ \E l \in Letters : AcceptLetter(l)
    \/ \E id \in Letters : EnqueuePersisted(id)

WorkerStep ==
    \/ DrainLoop
    \/ WorkerAppend
    \/ WorkerSyncRefused
    \/ WorkerRetry
    \/ WorkerAppendSaved
    \/ WorkerAppendSaveFailed
    \/ WorkerPersisted
    \/ WorkerDropPersisted

SyncStep(p) ==
    \/ \E out \in RelaysOutcomes : SyncRelaysReply(p, out)
    \/ SyncBlocksFailed(p)
    \/ \E r \in RemoteChoices(blocks) : SyncBlocksReply(p, r)
    \/ SyncSnapshotDone(p)
    \/ SyncRequeuePersisted(p)
    \/ SyncSaved(p)

\* the write pipeline with the pre-write sync and the sync timer, under a
\* directory whose answer to the heartbeat names no other genesis
Next ==
    \/ EnqueueStep
    \/ WorkerStep
    \/ TimerSyncStart
    \/ \E p \in SyncProcs : SyncStep(p)
    \/ ReportFailed
    \/ ReportReply(NullHash)

Spec == RelayInit /\ [][Next]_vars

\* the write pipeline and the heartbeat, with a directory that may name
\* another genesis; the pre-write sync reaches no peer
GenesisNext ==
    \/ EnqueueStep
    \/ WorkerStep
    \/ \E out \in RelaysOutcomes \ {"peer"} : SyncRelaysReply("w", out)
    \/ TimerReportStart
    \/ ReportFailed
    \/ \E g \in DirectoryGenesisChoices \cup {NullHash} : ReportReply(g)
    \/ ReportSwitch
    \/ ReportConfigSaved

GenesisSpec == RelayInit /\ [][GenesisNext]_vars

\* the write pipeline of a relay whose operator sets or empties directoryUrl
ConfigNext ==
    \/ EnqueueStep
    \/ WorkerStep
    \/ \E p \in SyncProcs : SyncStep(p)
    \/ ReportFailed
    \/ ReportReply(NullHash)
    \/ UpdateDirectoryUrl

ConfigSpec == RelayInit /\ [][ConfigNext]_vars

\* ------------------------------------------------------ the ledger alone
\* A BlockStore on an empty file, used directly (as the tests and the client
\* do): init, appendLetterBlock and syncFromRemote in any order.
NoStore == <<>>

LedgerStart ==
    /\ storeInit = FALSE
    /\ lastSync = NoSync
    /\ blocks = NoStore
    /\ shelf = [k \in {} |-> <<>>]
    /\ currentGenesisHash = NullHash
    /\ directoryUrl = TRUE
    /\ pendingQueue = <<>>
    /\ enqueuing = {}
    /\ queueDeferred = {}
    /\ resolvedAt = [l \in Letters |-> -1]
    /\ rejected = {}
    /\ submitted = 0
    /\ processingQueue = FALSE
    /\ wpc = "idle"
    /\ wEntry = NoEntry
    /\ wBlock = NoBlock
    /\ sync = [p \in SyncProcs |-> IdleSync]
    /\ report = IdleReport
    /\ timerSyncs = 0
    /\ ApartInit

\* BlockStore.init: the chain after it
init(bs) == IF bs = <<>> THEN <<createGenesisBlock("t_local")>> ELSE bs

LedgerInit ==
    /\ blocks' = init(blocks)
    /\ storeInit' = TRUE
    /\ UNCHANGED <<lastSync, relayVars>>
    /\ UNCHANGED apartVars

\* appendLetterBlock on a store that holds a chain (on an empty one it throws
\* at previousBlock.index and writes nothing)
LedgerAppend(l) ==
    /\ blocks # <<>>
    /\ Len(blocks) < MaxLedgerLen
    /\ blocks' = appendLetterBlock(blocks, l, "t_local")
    /\ UNCHANGED <<storeInit, lastSync, relayVars>>
    /\ UNCHANGED apartVars

\* chains a caller may hand to syncFromRemote that validateChain refuses
BrokenChains(local) ==
    {<<>>}
    \cup {[r EXCEPT ![Len(r)].hash = buildBlockHash(PeerGenesis)] :
             r \in {x \in RemoteChoices(local) : Len(x) > 1}}
    \cup {[r EXCEPT ![Len(r)] = WithHash([@ EXCEPT !.previousHash = NullHash])] :
             r \in {x \in RemoteChoices(local) : Len(x) > 1}}

\* the write pipeline of Spec with a peer that may also serve the sync timer
\* a chain validateChain refuses
BadPeerNext ==
    \/ Next
    \/ \E r \in BrokenChains(blocks) : SyncBlocksReply("t", r)

BadPeerSpec == RelayInit /\ [][BadPeerNext]_vars

LedgerSync(remote, force) ==
    /\ blocks' = syncFromRemote(blocks, remote, force)
    /\ lastSync' = [local |-> blocks, remote |-> remote, force |-> force,
                    outcome |-> syncOutcome(blocks, remote, force),
                    after |-> blocks']
    /\ UNCHANGED <<storeInit, relayVars>>
    /\ UNCHANGED apartVars

LedgerNext ==
    \/ LedgerInit
    \/ \E l \in Letters : LedgerAppend(l)
    \/ \E r \in RemoteChoices(blocks) \cup BrokenChains(blocks), f \in BOOLEAN :
          LedgerSync(r, f)

LedgerSpec == LedgerStart /\ [][LedgerNext]_vars

\* BlockStore.getManifest
getManifest(bs) ==
    [i \in 1..Len(bs) |->
        [index |-> bs[i].index, hash |-> bs[i].hash, timestamp |-> bs[i].timestamp]]

\* getChainSummary taking the first hash for latestHash
getChainSummaryFirstHash(bs) ==
    LET hashes == [i \in 1..Len(bs) |-> bs[i].hash] IN
    [length |-> Len(bs),
     hashes |-> hashes,
     latestHash |-> IF hashes = <<>> THEN NullHash ELSE hashes[1],
     checksum |-> getManifest(bs)]

\* BlockStore.getChainSummary; the checksum is written as the manifest it
\* hashes
getChainSummary(bs) ==
    LET hashes == [i \in 1..Len(bs) |-> bs[i].hash] IN
    [length |-> Len(bs),
     hashes |-> hashes,
     latestHash |-> IF hashes = <<>> THEN NullHash ELSE hashes[Len(hashes)],
     checksum |-> getManifest(bs)]

\* a caller reads getManifest and getChainSummary on the ledger as it stands
LedgerSummary ==
    /\ storeInit
    /\ lastSummary' = [read |-> TRUE, manifest |-> getManifest(blocks),
                       summary |-> <<getChainSummary(blocks)>>]
    /\ UNCHANGED <<ledgerVars, relayVars, selVars, dirVars, durVars, repVars, prbVars, cluVars>>

\* a ledger that is appended to, synchronised from valid peer chains and read
SummaryNext ==
    \/ LedgerInit
    \/ \E l \in Letters : LedgerAppend(l)
    \/ \E r \in RemoteChoices(blocks), f \in BOOLEAN : LedgerSync(r, f)
    \/ LedgerSummary

SummarySpec == LedgerStart /\ [][SummaryNext]_vars

\* ------------------------------------------------------ relay selector
\* What the directory lists for a relay, as far as the selector and the sync
\* engine read it.  A field that may be missing is a sequence of at most one
\* value; Opt is the ?? operator.  Shares (reachability, chainFreshness) are
\* in hundredths, scores in 1/60000.
MaxRelays == 3        \* longest relay list handed to the selector

DefaultLatencyMs == 1500
LatencyCapMs == 3000
DefaultShare == 50

SelfOnion == "relay.local"
PeerOnion == "peer.onion"

Opt(v, dflt) == IF v = <<>> THEN dflt ELSE v[1]

Max(a, b) == IF a >= b THEN a ELSE b

\* scoreRelay's latencyScore, times LatencyCapMs
latencyScore(relay) ==
    Max(0, LatencyCapMs
             - Min(Opt(relay.latencyMs, DefaultLatencyMs), LatencyCapMs))

scoreRelayNoPenalty(relay) ==
    (2 * latencyScore(relay)
       + 30 * Opt(relay.reachability, DefaultShare)
       + 30 * Opt(relay.chainFreshness, DefaultShare)) * 5

scoreRelay(relay) ==
    (2 * latencyScore(relay)
       + 30 * Opt(relay.reachability, DefaultShare)
       + 30 * Opt(relay.chainFreshness, DefaultShare))
    * (IF relay.gfwBlocked THEN 1 ELSE 5)

\* Array.prototype.sort with (a, b) => b.score - a.score is stable: a position
\* goes behind every position already there whose score is not lower
RECURSIVE InsertByScore(_, _, _)
InsertByScore(sorted, i, relays) ==
    IF sorted = <<>> THEN <<i>>
    ELSE IF scoreRelay(relays[Head(sorted)]) >= scoreRelay(relays[i])
    THEN <<Head(sorted)>> \o InsertByScore(Tail(sorted), i, relays)
    ELSE <<i>> \o sorted

RECURSIVE SortByScore(_, _)
SortByScore(relays, n) ==
    IF n = 0 THEN <<>>
    ELSE InsertByScore(SortByScore(relays, n - 1), n, relays)

\* selectBestRelay: the position in the input of the relay returned, 0 for
\* undefined
selectBestRelay(relays) ==
    IF relays = <<>> THEN 0 ELSE Head(SortByScore(relays, Len(relays)))

\* syncFromDirectory lines 461-466 on the list the directory returned (an
\* unreachable directory gives the empty list)
peerOutcome(relays) ==
    LET i == selectBestRelay(relays) IN
    IF i = 0 \/ relays[i].onion = SelfOnion
    THEN "No alternate relay available"
    ELSE IF Opt(relays[i].publicUrl, relays[i].onion) = ""
    THEN "Relay lacks URL"
    ELSE "peer"

ListedRelays ==
    [onion : {SelfOnion, PeerOnion},
     latencyMs : {<<>>, <<0 - 300>>, <<0>>, <<DefaultLatencyMs>>,
                  <<LatencyCapMs + DefaultLatencyMs>>},
     reachability : {<<>>}, chainFreshness : {<<>>},
     gfwBlocked : BOOLEAN, publicUrl : {<<"http">>}]
    \cup
    [onion : {PeerOnion}, latencyMs : {<<DefaultLatencyMs>>},
     reachability : {<<0>>, <<100>>}, chainFreshness : {<<>>, <<100>>},
     gfwBlocked : {FALSE}, publicUrl : {<<>>, <<"">>}]

RECURSIVE RelayLists(_)
RelayLists(n) ==
    IF n = 0 THEN {<<>>}
    ELSE RelayLists(n - 1)
         \cup {Append(l, r) : l \in {x \in RelayLists(n - 1) : Len(x) = n - 1},
                              r \in ListedRelays}

SelectorInit ==
    /\ PipelineAtRest
    /\ DirectoryAtRest
    /\ DurableAtRest
    /\ ReportsAtRest
    /\ SummaryAtRest
    /\ ProbeAtRest
    /\ ClusterAtRest
    /\ selector \in {[NoSelection EXCEPT !.relays = l] : l \in RelayLists(MaxRelays)}

\* chooseRelay answered: selectBestRelay on the list, then lines 461-466
SelectPeer ==
    /\ ~selector.done
    /\ selector' = [selector EXCEPT !.done = TRUE,
                                    !.latencyScores =
                                        [i \in 1..Len(selector.relays) |->
                                            latencyScore(selector.relays[i])],
                                    !.best = selectBestRelay(selector.relays),
                                    !.outcome = peerOutcome(selector.relays)]
    /\ UNCHANGED <<ledgerVars, relayVars, dirVars, durVars, repVars, sumVars, prbVars, cluVars>>

SelectorNext == SelectPeer

SelectorSpec == SelectorInit /\ [][SelectorNext]_vars

\* -------------------------------------------------- directory registry
\* A manifest is its list of block hashes (chainSummary.hashes; length is the
\* length of that list, as getChainSummary reports it).  The registry maps an
\* onion to what the claims read of its record.
DirOnions == {"a.onion", "b.onion"}

RECURSIVE HashLists(_)
HashLists(n) ==
    IF n = 0 THEN {<<>>}
    ELSE HashLists(n - 1)
         \cup {Append(l, h) : l \in {x \in HashLists(n - 1) : Len(x) = n - 1},
                              h \in 1..MaxHashes}

HashDiffAt(a, b) == {i \in 1..Min(Len(a), Len(b)) : a[i] # b[i]}

\* compareManifests; a missing missingCount is 0, a missing divergeAt is -1
compareManifests(canonical, candidate) ==
    IF canonical = <<>>
    THEN [matches |-> TRUE, missingCount |-> 0, divergeAt |-> -1]
    ELSE IF candidate = <<>>
    THEN [matches |-> FALSE, missingCount |-> 0, divergeAt |-> -1]
    ELSE IF HashDiffAt(canonical, candidate) # {}
    THEN [matches |-> FALSE, missingCount |-> 0,
          divergeAt |-> FirstOf(HashDiffAt(canonical, candidate)) - 1]
    ELSE IF Len(candidate) < Len(canonical)
    THEN [matches |-> FALSE, missingCount |-> Len(canonical) - Len(candidate),
          divergeAt |-> -1]
    ELSE [matches |-> TRUE, missingCount |-> 0, divergeAt |-> -1]

\* DirectoryState.updateCanonicalManifest
updateCanonicalManifest(currentManifest, candidateSummary) ==
    IF Len(candidateSummary) > Len(currentManifest)
    THEN candidateSummary ELSE currentManifest

\* upsertRelay lines 40-68 on the document it got from the store: the
\* document it hands to store.update
upsertRelay(state, onion, hashes) ==
    LET existing ==
            IF onion \in DOMAIN state.relays
            THEN [state.relays[onion] EXCEPT !.chainSummary = hashes]
            ELSE [chainSummary |-> hashes, metricsSampledAt |-> 0,
                  syncStatus |-> [needsSync |-> FALSE, needsRepair |-> FALSE,
                                  missingCount |-> 0]]
        canonicalManifest ==
            updateCanonicalManifest(state.canonicalManifest, existing.chainSummary)
        comparison == compareManifests(canonicalManifest, existing.chainSummary)
        updated ==
            [existing EXCEPT !.syncStatus =
                [needsSync |-> comparison.missingCount # 0,
                 needsRepair |-> ~comparison.matches /\ comparison.missingCount = 0,
                 missingCount |-> comparison.missingCount]]
    IN [relays |-> [o \in DOMAIN state.relays \cup {onion} |->
                       IF o = onion THEN updated ELSE state.relays[o]],
        canonicalManifest |-> canonicalManifest]

\* the mutator of updateRelayMetrics (lines 74-94): sampledAt is the call's
updateRelayMetrics(data, onion, sampledAt) ==
    [data EXCEPT !.relays =
        [o \in DOMAIN data.relays |->
            IF o = onion
            THEN [data.relays[o] EXCEPT !.metricsSampledAt = sampledAt]
            ELSE data.relays[o]]]

\* what a call makes of the document in the store
ApplyCall(data, c, call) ==
    CASE call.kind = "upsert" -> upsertRelay(data, call.onion, call.hashes)
      [] call.kind = "metrics" -> updateRelayMetrics(data, call.onion, c)
      [] OTHER -> data

\* where a call stands once it has run on the document: listRelays is over,
\* the others wait for the write of the file
AfterApply(kind) == IF kind = "list" THEN "done" ELSE "save"

Applied == {c \in 1..MaxDirCalls : dirCalls[c].pc \in {"save", "done"}}

\* POST /api/relays (upsert), GET /api/relays or the poller's listRelays
\* (list), or a probe's updateRelayMetrics (metrics; the poller probes the
\* relays that listRelays returned, so the store is loaded by then) begins.
\* On a loaded store get/load return in the same turn and the call runs up to
\* the write of the file; on a store not yet loaded it waits for its own
\* readFile.
DirCallStart(c, kind, onion, hashes) ==
    /\ dirCalls[c].pc = "new"
    /\ c > 1 => dirCalls[c - 1].pc # "new"
    /\ kind = "metrics"
          => dirStore.data # <<>> /\ onion \in DOMAIN dirStore.data[1].relays
    /\ LET call == [kind |-> kind, onion |-> onion, hashes |-> hashes,
                    pc |-> "load", at |-> 0]
       IN IF dirStore.data = <<>>
          THEN /\ dirCalls' = [dirCalls EXCEPT ![c] = call]
               /\ UNCHANGED dirStore
          ELSE /\ dirCalls' = [dirCalls EXCEPT ![c] =
                     [call EXCEPT !.pc = AfterApply(kind),
                                  !.at = Cardinality(Applied) + 1]]
               /\ dirStore' = [dirStore EXCEPT !.data =
                     <<ApplyCall(dirStore.data[1], c, call)>>]
    /\ UNCHANGED <<ledgerVars, relayVars, selVars, durVars, repVars, sumVars, prbVars, cluVars>>

\* JsonStore.load lines 53-56 for the call that began it: _data becomes what
\* the file holds, and the call goes on from there to the write of the file
DirLoadDone(c) ==
    /\ dirCalls[c].pc = "load"
    /\ dirCalls' = [dirCalls EXCEPT ![c].pc = AfterApply(dirCalls[c].kind),
                                    ![c].at = Cardinality(Applied) + 1]
    /\ dirStore' = [dirStore EXCEPT !.data =
          <<ApplyCall(dirStore.file, c, dirCalls[c])>>]
    /\ UNCHANGED <<ledgerVars, relayVars, selVars, durVars, repVars, sumVars, prbVars, cluVars>>

\* JsonStore.save finished: the file holds _data
DirSaveDone(c) ==
    /\ dirCalls[c].pc = "save"
    /\ dirCalls' = [dirCalls EXCEPT ![c].pc = "done"]
    /\ dirStore' = [dirStore EXCEPT !.file = dirStore.data[1]]
    /\ UNCHANGED <<ledgerVars, relayVars, selVars, durVars, repVars, sumVars, prbVars, cluVars>>

DirectoryInit == PipelineAtRest /\ ApartInit

DirectoryNext ==
    \/ \E c \in 1..MaxDirCalls, o \in DirOnions :
          \/ \E h \in HashLists(MaxManifestLen) : DirCallStart(c, "upsert", o, h)
          \/ DirCallStart(c, "metrics", o, <<>>)
          \/ DirCallStart(c, "list", "", <<>>)
    \/ \E c \in 1..MaxDirCalls : DirLoadDone(c)
    \/ \E c \in 1..MaxDirCalls : DirSaveDone(c)

DirectorySpec == DirectoryInit /\ [][DirectoryNext]_vars

\* ------------------------------------------------ the reachability probe
\* One relay of the registry, by the metric fields of its record: latencyMs,
\* reachability (in percent) and gfwBlocked.  A field that is null or absent
\* is <<>>.  metricsSampledAt, metricsSource, metricsNotes and metricsError
\* are left out.

probeFrame == <<ledgerVars, relayVars, selVars, dirVars, durVars, repVars, sumVars,
               cluVars>>

\* a field of a heartbeat's body: not given, or given with a value (null too)
NotGiven == [given |-> FALSE, value |-> <<>>]
Given(v) == [given |-> TRUE, value |-> v]

\* the metrics a relay reports about itself in POST /api/relays
Payloads ==
    [latencyMs : {NotGiven, Given(<<>>), Given(<<DefaultLatencyMs>>)},
     reachability : {NotGiven, Given(<<90>>)},
     gfwBlocked : {NotGiven, Given(<<TRUE>>), Given(<<FALSE>>)}]

\* upsertRelay lines 41-58 on the metric fields: { ...existing, ...payload },
\* or the payload alone for a relay not yet known
upsertMetrics(existing, payload) ==
    LET Over(f) == IF payload[f].given THEN payload[f].value
                   ELSE IF existing = <<>> THEN <<>> ELSE existing[1][f]
    IN [latencyMs |-> Over("latencyMs"), reachability |-> Over("reachability"),
        gfwBlocked |-> Over("gfwBlocked")]

\* what fetch can come back with: a response (status, elapsed milliseconds)
\* or a rejection (the error's name and code, and whether its message matches
\* the pattern of isLikelyGfwError)
ProbeStatuses == {200, 204, 403, 500}
ElapsedChoices == {0, 120}
suspectedCodes == {"ECONNRESET", "ENETRESET", "ECONNREFUSED", "EHOSTUNREACH", "ETIMEDOUT"}
ProbeErrors ==
    {[name |-> "AbortError", code |-> "", messageMatches |-> FALSE],
     [name |-> "Error", code |-> "ECONNREFUSED", messageMatches |-> FALSE],
     [name |-> "Error", code |-> "ENOTFOUND", messageMatches |-> FALSE],
     [name |-> "Error", code |-> "", messageMatches |-> TRUE],
     [name |-> "TypeError", code |-> "", messageMatches |-> FALSE]}
NoError == [name |-> "", code |-> "", messageMatches |-> FALSE]
ProbeOutcomes ==
    {[kind |-> "response", status |-> st, elapsed |-> e, error |-> NoError] :
        st \in ProbeStatuses, e \in ElapsedChoices}
    \cup {[kind |-> "error", status |-> 0, elapsed |-> 0, error |-> err] :
            err \in ProbeErrors}

\* response.ok
ResponseOk(status) == status >= 200 /\ status <= 299

isLikelyGfwError(error) ==
    \/ error.name = "AbortError"
    \/ error.code # "" /\ error.code \in suspectedCodes
    \/ error.messageMatches

\* the metrics object probeRelayMetrics builds (lines 95-121)
probeMetrics(out) ==
    IF out.kind = "response"
    THEN IF ~ResponseOk(out.status)
         THEN [latencyMs |-> <<>>, reachability |-> <<0>>,
               gfwBlocked |-> <<out.status = 403>>]
         ELSE [latencyMs |-> <<out.elapsed>>, reachability |-> <<100>>,
               gfwBlocked |-> <<FALSE>>]
    ELSE [latencyMs |-> <<>>, reachability |-> <<0>>,
          gfwBlocked |-> <<isLikelyGfwError(out.error)>>]

\* the record updateRelayMetrics' mutator returns for the relay (lines 77-92):
\* ?? passes over null, the typeof tests pass over a missing value
mergeMetrics(relay, metricsUpdate) ==
    [latencyMs |->
        IF metricsUpdate.latencyMs # <<>> THEN metricsUpdate.latencyMs
        ELSE relay.latencyMs,
     reachability |->
        IF metricsUpdate.reachability # <<>> THEN metricsUpdate.reachability
        ELSE relay.reachability,
     gfwBlocked |->
        IF metricsUpdate.gfwBlocked # <<>> THEN metricsUpdate.gfwBlocked
        ELSE IF relay.gfwBlocked # <<>> THEN relay.gfwBlocked ELSE <<FALSE>>]

\* POST /api/relays: the relay's heartbeat is merged into its record
UpsertMetrics(payload) ==
    /\ probed' = <<upsertMetrics(probed, payload)>>
    /\ UNCHANGED <<probe, probeFrame>>

\* the poller lists the relays and probes this one: fetch is under way
ProbeStart ==
    /\ probe.pc = "idle"
    /\ probe.made < MaxProbes
    /\ probed # <<>>
    /\ probe' = [probe EXCEPT !.pc = "fetch", !.made = @ + 1]
    /\ UNCHANGED <<probed, probeFrame>>

\* fetch settles.  A response that is ok is read to its end first; any other
\* outcome goes on to updateRelayMetrics, whose store.update runs its mutator
\* before the next I/O (the store is loaded) and then writes the file
ProbeReply(out) ==
    /\ probe.pc = "fetch"
    /\ IF out.kind = "response" /\ ResponseOk(out.status)
       THEN /\ probe' = [probe EXCEPT !.pc = "consume", !.metrics = probeMetrics(out)]
            /\ UNCHANGED probed
       ELSE /\ probe' = [probe EXCEPT !.pc = "save", !.metrics = probeMetrics(out)]
            /\ probed' = <<mergeMetrics(probed[1], probeMetrics(out))>>
    /\ UNCHANGED probeFrame

\* response.arrayBuffer() is over (or has failed, which is logged):
\* updateRelayMetrics
ProbeConsumed ==
    /\ probe.pc = "consume"
    /\ probe' = [probe EXCEPT !.pc = "save"]
    /\ probed' = <<mergeMetrics(probed[1], probe.metrics)>>
    /\ UNCHANGED probeFrame

\* JsonStore.save is over and probeRelayMetrics returns
ProbeSaved ==
    /\ probe.pc = "save"
    /\ probe' = [probe EXCEPT !.pc = "idle", !.metrics = NoMetrics]
    /\ UNCHANGED <<probed, probeFrame>>

ProbeInit == PipelineAtRest /\ ApartInit

ProbeNext ==
    \/ \E payload \in Payloads : UpsertMetrics(payload)
    \/ ProbeStart
    \/ \E out \in ProbeOutcomes : ProbeReply(out)
    \/ ProbeConsumed
    \/ ProbeSaved

ProbeSpec == ProbeInit /\ [][ProbeNext]_vars


\* ------------------------------------------------- the durable write queue
\* The write queue with its file, under a directory that lists no other
\* relay (the pre-write sync never replaces the chain) and with the process
\* crashing and restarting.  A step runs from one completion of file or
\* network I/O to the next await of one.

\* what no step of the durable queue changes
queueFrame == <<storeInit, lastSync, shelf, currentGenesisHash, directoryUrl, wpc,
                wEntry, wBlock, sync, report, timerSyncs, selVars, dirVars, repVars,
                sumVars, prbVars, cluVars>>

\* persistQueue up to JsonStore.save's await of ensureDir
StartedPersist == [pc |-> "dir", content |-> <<>>]

\* what processQueueEntry throws: the error of ensureFreshChainBeforeWrite
\* (lines 507-519) and a failed write of the chain file; no thrower sets
\* retryable or retryDelayMs
PreWriteSyncError == [retryable |-> FALSE, statusCode |-> 503, retryDelayMs |-> <<>>]
ChainSaveError == [retryable |-> FALSE, statusCode |-> 0, retryDelayMs |-> <<>>]

DefaultRetryDelayMs == 2000

\* drainQueue's catch, line 178
retryable(error) == error.retryable \/ error.statusCode = 503

\* drainQueue's catch, line 181
retryDelayMs(error) ==
    IF error.retryDelayMs # <<>> THEN error.retryDelayMs[1] ELSE DefaultRetryDelayMs

\* the loop of drainQueue taking the entry at the tail
LoopHeadTakingLast(d, s, q) ==
    IF q = <<>>
    THEN [d EXCEPT ![s] = IdleDrain]
    ELSE [d EXCEPT ![s] = [pc |-> "presync", entry |-> q[Len(q)], block |-> NoBlock,
                           wait |-> 0]]

\* drainQueue at the head of its loop (lines 170-173 and 196-198): idle on an
\* empty queue, else the head entry up to the request of the pre-write sync
LoopHead(d, s, q) ==
    IF q = <<>>
    THEN [d EXCEPT ![s] = IdleDrain]
    ELSE [d EXCEPT ![s] = [pc |-> "presync", entry |-> Head(q), block |-> NoBlock,
                           wait |-> 0]]

FreeWorker(d) ==
    CHOOSE s \in Workers : d[s].pc = "idle" /\ \A t \in Workers : d[t].pc = "idle" => s <= t

\* processQueueSoon without its test of this.processingQueue
processQueueSoonIgnoringFlag(flag, d, q) ==
    IF \A s \in Workers : d[s].pc # "idle"
    THEN [flag |-> flag, drain |-> d, trigger |-> "noop"]
    ELSE [flag |-> q # <<>>, drain |-> LoopHead(d, FreeWorker(d), q),
          trigger |-> "started"]

\* processQueueSoon (lines 152-167) with the microtask it queues: a no-op
\* while processingQueue is set, else a drainQueue invocation begins and runs
\* to its first await, or ends at once on an empty queue
processQueueSoon(flag, d, q) ==
    IF flag \/ \A s \in Workers : d[s].pc # "idle"
    THEN [flag |-> flag, drain |-> d, trigger |-> "noop"]
    ELSE [flag |-> q # <<>>, drain |-> LoopHead(d, FreeWorker(d), q),
          trigger |-> "started"]

\* enqueueLetter up to the await inside persistQueue (lines 135-145)
enqueueLetter(l) ==
    /\ l = submitted + 1
    /\ l \in Letters
    /\ submitted' = l
    /\ pendingQueue' = Append(pendingQueue,
                              [id |-> l, letter |-> l, replayedFromBlock |-> -1])
    /\ enqueuing' = enqueuing \cup {l}
    /\ persist' = [persist EXCEPT ![EnqueueWriter(l)] = StartedPersist]
    /\ UNCHANGED <<blocks, queueDeferred, resolvedAt, rejected, processingQueue,
                   queueFile, chainFile, drain, retryTimers, restarts, clears,
                   cleared, lastTrigger, queueFrame>>

\* JsonStore.save after ensureDir: JSON.stringify(this._data), whose queue is
\* the array this.pendingQueue, and the call of fs.writeFile
PersistSerialized(w) ==
    /\ persist[w].pc = "dir"
    /\ persist' = [persist EXCEPT ![w] = [pc |-> "write", content |-> pendingQueue]]
    /\ UNCHANGED <<blocks, pendingQueue, enqueuing, queueDeferred, resolvedAt, rejected,
                   submitted, processingQueue, queueFile, chainFile, drain,
                   retryTimers, restarts, clears, cleared, lastTrigger, queueFrame>>

\* the writeFile of enqueueLetter's persistQueue completed (lines 146-149)
EnqueueWritten(id) ==
    /\ id \in enqueuing
    /\ persist[EnqueueWriter(id)].pc = "write"
    /\ queueFile' = persist[EnqueueWriter(id)].content
    /\ persist' = [persist EXCEPT ![EnqueueWriter(id)] = NoPersist]
    /\ enqueuing' = enqueuing \ {id}
    /\ queueDeferred' = queueDeferred \cup {id}
    /\ LET t == processQueueSoon(processingQueue, drain, pendingQueue)
       IN /\ processingQueue' = t.flag
          /\ drain' = t.drain
          /\ lastTrigger' = [by |-> "enqueueLetter", did |-> t.trigger]
    /\ UNCHANGED <<blocks, pendingQueue, resolvedAt, rejected, submitted, chainFile,
                   retryTimers, restarts, clears, cleared, queueFrame>>

\* the writeFile of enqueueLetter's persistQueue failed: enqueueLetter throws
\* at line 145, with the entry pushed, before it makes the deferred and
\* before it calls processQueueSoon; the promise acceptLetter returned rejects
EnqueueWriteFailed(id) ==
    /\ id \in enqueuing
    /\ persist[EnqueueWriter(id)].pc = "write"
    /\ persist' = [persist EXCEPT ![EnqueueWriter(id)] = NoPersist]
    /\ enqueuing' = enqueuing \ {id}
    /\ rejected' = rejected \cup {id}
    /\ UNCHANGED <<blocks, pendingQueue, queueDeferred, resolvedAt, submitted,
                   processingQueue, queueFile, chainFile, drain, retryTimers, restarts,
                   clears, cleared, lastTrigger, queueFrame>>

\* ensureFreshChainBeforeWrite returned: appendLetterBlock builds the block,
\* puts the longer chain in the store and starts to save it (part_009 123-143)
DrainAppend(s) ==
    /\ drain[s].pc = "presync"
    /\ blocks' = appendLetterBlock(blocks, drain[s].entry.letter, "t_local")
    /\ drain' = [drain EXCEPT ![s].pc = "append_save", ![s].block = Last(blocks')]
    /\ UNCHANGED <<pendingQueue, enqueuing, queueDeferred, resolvedAt, rejected,
                   submitted, processingQueue, queueFile, chainFile, persist,
                   retryTimers, restarts, clears, cleared, lastTrigger, queueFrame>>

\* ensureFreshChainBeforeWrite threw the error tagged 503: wait (lines 177-181)
DrainSyncRefused(s) ==
    /\ drain[s].pc = "presync"
    /\ retryable(PreWriteSyncError)
    /\ drain' = [drain EXCEPT ![s].pc = "backoff",
                              ![s].wait = retryDelayMs(PreWriteSyncError)]
    /\ UNCHANGED <<blocks, pendingQueue, enqueuing, queueDeferred, resolvedAt, rejected,
                   submitted, processingQueue, queueFile, chainFile, persist,
                   retryTimers, restarts, clears, cleared, lastTrigger, queueFrame>>

\* the wait is over: continue (line 182)
DrainRetry(s) ==
    /\ drain[s].pc = "backoff"
    /\ drain' = LoopHead(drain, s, pendingQueue)
    /\ processingQueue' = IF pendingQueue = <<>> THEN FALSE ELSE processingQueue
    /\ UNCHANGED <<blocks, pendingQueue, enqueuing, queueDeferred, resolvedAt, rejected,
                   submitted, queueFile, chainFile, persist, retryTimers, restarts,
                   clears, cleared, lastTrigger, queueFrame>>

\* the chain file was written; reportToDirectory('post-block') is awaited
DrainAppendSaved(s) ==
    /\ drain[s].pc = "append_save"
    /\ chainFile' = blocks
    /\ drain' = [drain EXCEPT ![s].pc = "report"]
    /\ UNCHANGED <<blocks, pendingQueue, enqueuing, queueDeferred, resolvedAt, rejected,
                   submitted, processingQueue, queueFile, persist, retryTimers,
                   restarts, clears, cleared, lastTrigger, queueFrame>>

\* the write of the chain file failed: the catch drops the entry (184-189)
DrainAppendSaveFailed(s) ==
    /\ drain[s].pc = "append_save"
    /\ ~retryable(ChainSaveError)
    /\ pendingQueue' = Shift(pendingQueue)
    /\ persist' = [persist EXCEPT ![DrainWriter(s)] = StartedPersist]
    /\ drain' = [drain EXCEPT ![s].pc = "persist_drop"]
    /\ UNCHANGED <<blocks, enqueuing, queueDeferred, resolvedAt, rejected, submitted,
                   processingQueue, queueFile, chainFile, retryTimers, restarts,
                   clears, cleared, lastTrigger, queueFrame>>

\* the report ended (its failure is caught, lines 200-204): shift and
\* persistQueue (lines 174-175)
DrainReported(s) ==
    /\ drain[s].pc = "report"
    /\ pendingQueue' = Shift(pendingQueue)
    /\ persist' = [persist EXCEPT ![DrainWriter(s)] = StartedPersist]
    /\ drain' = [drain EXCEPT ![s].pc = "persist_ok"]
    /\ UNCHANGED <<blocks, enqueuing, queueDeferred, resolvedAt, rejected, submitted,
                   processingQueue, queueFile, chainFile, retryTimers, restarts,
                   clears, cleared, lastTrigger, queueFrame>>

\* the writeFile of drainQueue's persistQueue completed: resolveQueueEntry or
\* rejectQueueEntry, then the next turn of the loop (lines 176, 190, 170-173)
DrainWritten(s) ==
    /\ drain[s].pc \in {"persist_ok", "persist_drop"}
    /\ persist[DrainWriter(s)].pc = "write"
    /\ queueFile' = persist[DrainWriter(s)].content
    /\ persist' = [persist EXCEPT ![DrainWriter(s)] = NoPersist]
    /\ IF drain[s].entry.id \in queueDeferred
       THEN /\ queueDeferred' = queueDeferred \ {drain[s].entry.id}
            /\ IF drain[s].pc = "persist_ok"
               THEN /\ resolvedAt' = [resolvedAt EXCEPT ![drain[s].entry.id] =
                                          drain[s].block.index]
                    /\ UNCHANGED rejected
               ELSE /\ rejected' = rejected \cup {drain[s].entry.id}
                    /\ UNCHANGED resolvedAt
       ELSE UNCHANGED <<queueDeferred, resolvedAt, rejected>>
    /\ drain' = LoopHead(drain, s, pendingQueue)
    /\ processingQueue' = IF pendingQueue = <<>> THEN FALSE ELSE processingQueue
    /\ UNCHANGED <<blocks, pendingQueue, enqueuing, submitted, chainFile, retryTimers,
                   restarts, clears, cleared, lastTrigger, queueFrame>>

\* the write of queue.json failed.  In the try block the error reaches the
\* catch, which shifts and persists again (lines 177-189); in the catch block
\* drainQueue rejects, and the handler of processQueueSoon clears the flag
\* and sets the retry timer on a non-empty queue (lines 158-165)
DrainWriteFailed(s) ==
    /\ drain[s].pc \in {"persist_ok", "persist_drop"}
    /\ persist[DrainWriter(s)].pc = "write"
    /\ IF drain[s].pc = "persist_ok"
       THEN /\ pendingQueue' = Shift(pendingQueue)
            /\ persist' = [persist EXCEPT ![DrainWriter(s)] = StartedPersist]
            /\ drain' = [drain EXCEPT ![s].pc = "persist_drop"]
            /\ UNCHANGED <<processingQueue, retryTimers>>
       ELSE /\ persist' = [persist EXCEPT ![DrainWriter(s)] = NoPersist]
            /\ drain' = [drain EXCEPT ![s] = IdleDrain]
            /\ processingQueue' = FALSE
            /\ retryTimers' = IF pendingQueue = <<>> THEN retryTimers
                              ELSE retryTimers + 1
            /\ UNCHANGED pendingQueue
    /\ UNCHANGED <<blocks, enqueuing, queueDeferred, resolvedAt, rejected, submitted,
                   queueFile, chainFile, restarts, clears, cleared, lastTrigger,
                   queueFrame>>

\* the crash-retry timer fires (line 163)
RetryTimerFires ==
    /\ retryTimers > 0
    /\ retryTimers' = retryTimers - 1
    /\ LET t == processQueueSoon(processingQueue, drain, pendingQueue)
       IN /\ processingQueue' = t.flag
          /\ drain' = t.drain
          /\ lastTrigger' = [by |-> "timer", did |-> t.trigger]
    /\ UNCHANGED <<blocks, pendingQueue, enqueuing, queueDeferred, resolvedAt, rejected,
                   submitted, queueFile, chainFile, persist, restarts, clears,
                   cleared, queueFrame>>

\* POST /api/relay/queue/clear: clearQueue up to the await inside
\* persistQueue (lines 224-229)
clearQueue ==
    /\ clears < MaxClears
    /\ clears' = clears + 1
    /\ cleared' = cleared \cup QueueIdsOf(pendingQueue)
    /\ rejected' = rejected \cup (QueueIdsOf(pendingQueue) \cap queueDeferred)
    /\ queueDeferred' = queueDeferred \ QueueIdsOf(pendingQueue)
    /\ pendingQueue' = <<>>
    /\ persist' = [persist EXCEPT ![ClearWriter] = StartedPersist]
    /\ UNCHANGED <<blocks, enqueuing, resolvedAt, submitted, processingQueue, queueFile,
                   chainFile, drain, retryTimers, restarts, lastTrigger, queueFrame>>

\* the writeFile of clearQueue's persistQueue completed
ClearWritten ==
    /\ persist[ClearWriter].pc = "write"
    /\ queueFile' = persist[ClearWriter].content
    /\ persist' = [persist EXCEPT ![ClearWriter] = NoPersist]
    /\ UNCHANGED <<blocks, pendingQueue, enqueuing, queueDeferred, resolvedAt, rejected,
                   submitted, processingQueue, chainFile, drain, retryTimers, restarts,
                   clears, cleared, lastTrigger, queueFrame>>

\* the process dies and is started again: init() (lines 71-81) loads the
\* chain file and queue.json and calls processQueueSoon; the deferreds, the
\* writes in flight and the timers of the dead process are gone
CrashRestart ==
    /\ restarts < MaxRestarts
    /\ restarts' = restarts + 1
    /\ blocks' = chainFile
    /\ pendingQueue' = queueFile
    /\ enqueuing' = {}
    /\ queueDeferred' = {}
    /\ persist' = [w \in Writers |-> NoPersist]
    /\ retryTimers' = 0
    /\ LET t == processQueueSoon(FALSE, [s \in Workers |-> IdleDrain], queueFile)
       IN /\ processingQueue' = t.flag
          /\ drain' = t.drain
          /\ lastTrigger' = [by |-> "init", did |-> t.trigger]
    /\ UNCHANGED <<resolvedAt, rejected, submitted, queueFile, chainFile, clears,
                   cleared, queueFrame>>

QueueInit == RelayInit

QueueNext ==
    \/ \E l \in Letters : enqueueLetter(l)
    \/ \E w \in Writers : PersistSerialized(w)
    \/ \E id \in Letters : EnqueueWritten(id)
    \/ \E id \in Letters : EnqueueWriteFailed(id)
    \/ \E s \in Workers : DrainAppend(s)
    \/ \E s \in Workers : DrainSyncRefused(s)
    \/ \E s \in Workers : DrainRetry(s)
    \/ \E s \in Workers : DrainAppendSaved(s)
    \/ \E s \in Workers : DrainAppendSaveFailed(s)
    \/ \E s \in Workers : DrainReported(s)
    \/ \E s \in Workers : DrainWritten(s)
    \/ \E s \in Workers : DrainWriteFailed(s)
    \/ RetryTimerFires
    \/ clearQueue
    \/ ClearWritten
    \/ CrashRestart

QueueSpec == QueueInit /\ [][QueueNext]_vars

\* ------------------------------------------------- the heartbeat reports
\* reportToDirectory with its callers, its failure counter and its retry
\* timeout, under a directory whose answer names no other genesis.

\* what no step of a report changes
reportFrame == <<ledgerVars, shelf, currentGenesisHash, queueVars, workerVars, sync,
                 report, timerSyncs, selVars, dirVars, durVars, sumVars,
                 prbVars, cluVars>>

FreeRun(runs) ==
    CHOOSE r \in Runs : runs[r].pc = "idle" /\ \A q \in Runs : runs[q].pc = "idle" => r <= q

TimeoutIds(timeouts) == {t.id : t \in timeouts}

FreeTimeout(timeouts) ==
    CHOOSE i \in 1..MaxTimeouts :
        i \notin TimeoutIds(timeouts) /\ \A j \in 1..MaxTimeouts : j \notin TimeoutIds(timeouts) => i <= j

\* reportToDirectory that never takes the run in flight
joinsRunInFlightNever(promise) == FALSE

\* `if (this._reportPromise) return this._reportPromise` (lines 361-363)
joinsRunInFlight(promise) == promise # 0

\* the failure path setting a timeout whatever this._reportRetryTimer holds
armsRetryAlways(handle) == TRUE

\* `if (!this._reportRetryTimer)` (line 429)
armsRetry(handle) == handle = 0

\* clearTimeout(this._reportRetryTimer) (lines 366-369, 410-413)
clearTimeout(timeouts, handle) == {t \in timeouts : t.id # handle}

\* Math.min(30000, 2000 * failures) (line 428)
backoffMs(failures) == Min(BackoffCapMs, BackoffStepMs * failures)

\* the promise of run r settles: the callers awaiting it take its result
Settle(callers, r) == [c \in Callers |-> IF callers[c] = r THEN 0 ELSE callers[c]]

\* reportToDirectory(c) up to its first await of the network (lines 360-401),
\* with `handle` and `timeouts` as the caller left them: it joins the run in
\* flight, or records {skipped} without a directoryUrl, or starts a run that
\* posts the heartbeat
reportToDirectory(c, handle, timeouts) ==
    IF joinsRunInFlight(reportPromise)
    THEN /\ reportCallers' = [reportCallers EXCEPT ![c] = reportPromise]
         /\ reportRetryTimer' = handle
         /\ reportTimeouts' = timeouts
         /\ UNCHANGED <<reportPromise, reportRuns, consecutiveReportFailures,
                        lastReportInfo>>
    ELSE IF ~directoryUrl
    THEN /\ consecutiveReportFailures' = 0
         /\ reportRetryTimer' = 0
         /\ reportTimeouts' = clearTimeout(timeouts, handle)
         /\ lastReportInfo' = [delivered |-> FALSE, skipped |-> TRUE, trigger |-> c,
                               backoffMs |-> -1, consecutiveFailures |-> 0]
         /\ UNCHANGED <<reportPromise, reportRuns, reportCallers>>
    ELSE /\ \E r \in Runs : reportRuns[r].pc = "idle"
         /\ LET r == FreeRun(reportRuns) IN
            /\ reportRuns' = [reportRuns EXCEPT ![r] = [pc |-> "post", trigger |-> c]]
            /\ reportPromise' = r
            /\ reportCallers' = [reportCallers EXCEPT ![c] = r]
         /\ reportRetryTimer' = handle
         /\ reportTimeouts' = timeouts
         /\ UNCHANGED <<consecutiveReportFailures, lastReportInfo>>

\* server.js reportTimer, processQueueEntry's post-block report, POST /api/report
CallReport(c) ==
    /\ c # "retry"
    /\ reportCallers[c] = 0
    /\ reportToDirectory(c, reportRetryTimer, reportTimeouts)
    /\ UNCHANGED <<directoryUrl, reportFrame>>

\* the retry timeout fires (lines 430-435)
RetryTimeoutFires(i) ==
    /\ i \in TimeoutIds(reportTimeouts)
    /\ reportCallers["retry"] = 0
    /\ reportToDirectory("retry", 0, clearTimeout(reportTimeouts, i))
    /\ UNCHANGED <<directoryUrl, reportFrame>>

\* the directory answered the POST (lines 401-425) and the run ends (451-453)
RunDelivered(r) ==
    /\ reportRuns[r].pc = "post"
    /\ consecutiveReportFailures' = 0
    /\ reportTimeouts' = clearTimeout(reportTimeouts, reportRetryTimer)
    /\ reportRetryTimer' = 0
    /\ lastReportInfo' = [delivered |-> TRUE, skipped |-> FALSE,
                          trigger |-> reportRuns[r].trigger, backoffMs |-> -1,
                          consecutiveFailures |-> 0]
    /\ reportRuns' = [reportRuns EXCEPT ![r] = IdleRun]
    /\ reportPromise' = 0
    /\ reportCallers' = Settle(reportCallers, r)
    /\ UNCHANGED <<directoryUrl, reportFrame>>

\* the POST failed (lines 426-449) and the run ends (451-453)
RunFailed(r) ==
    /\ reportRuns[r].pc = "post"
    /\ consecutiveReportFailures < MaxFailures
    /\ consecutiveReportFailures' = consecutiveReportFailures + 1
    /\ IF armsRetry(reportRetryTimer) /\ Cardinality(reportTimeouts) < MaxTimeouts
       THEN LET i == FreeTimeout(reportTimeouts) IN
            /\ reportTimeouts' = reportTimeouts \cup
                   {[id |-> i, delayMs |-> backoffMs(consecutiveReportFailures'),
                     setAtFailure |-> consecutiveReportFailures']}
            /\ reportRetryTimer' = i
       ELSE UNCHANGED <<reportTimeouts, reportRetryTimer>>
    /\ lastReportInfo' = [delivered |-> FALSE, skipped |-> FALSE,
                          trigger |-> reportRuns[r].trigger,
                          backoffMs |-> backoffMs(consecutiveReportFailures'),
                          consecutiveFailures |-> consecutiveReportFailures']
    /\ reportRuns' = [reportRuns EXCEPT ![r] = IdleRun]
    /\ reportPromise' = 0
    /\ reportCallers' = Settle(reportCallers, r)
    /\ UNCHANGED <<directoryUrl, reportFrame>>

ReportInit == RelayInit

ReportNext ==
    \/ \E c \in Callers : CallReport(c)
    \/ \E i \in 1..MaxTimeouts : RetryTimeoutFires(i)
    \/ \E r \in Runs : RunDelivered(r)
    \/ \E r \in Runs : RunFailed(r)
    \/ UpdateDirectoryUrl

ReportSpec == ReportInit /\ [][ReportNext]_vars

\* ------------------------------------------------- the active chain
\* the sync timer and the report timer of a relay that accepts no letters,
\* with a directory whose answer to the heartbeat may name this relay's first
\* genesis or a peer's
ActiveNext ==
    \/ TimerSyncStart
    \/ \E out \in RelaysOutcomes : SyncRelaysReply("t", out)
    \/ SyncBlocksFailed("t")
    \/ \E r \in RemoteChoices(blocks) : SyncBlocksReply("t", r)
    \/ SyncSnapshotDone("t")
    \/ SyncSaved("t")
    \/ TimerReportStart
    \/ ReportFailed
    \/ \E g \in DirectoryGenesisChoices \cup {NullHash} : ReportReply(g)
    \/ ReportSwitch
    \/ ReportConfigSaved

ActiveSpec == RelayInit /\ [][ActiveNext]_vars

\* ------------------------------------------------- a cluster of relays
\* Every relay of the cluster is registered at the same directory, which
\* answers each of them with the same list; each relay keeps its own chain and
\* its own queue.  A sync, and the write of one queue entry with the sync
\* before it, are taken as one step each.
MaxClusterLetters == 2
ClusterOnions == {SelfOnion, PeerOnion}

\* new Date().toISOString() on a relay
ClusterStamp(r) == IF r = SelfOnion THEN "t_local" ELSE "t_peer"

\* GET /api/relays: both relays listed once, in either order, with metrics
\* that stay as they are
ClusterLists ==
    {l \in RelayLists(2) :
        /\ Len(l) = 2
        /\ l[1].onion # l[2].onion
        /\ \A i \in 1..2 : /\ l[i].publicUrl = <<"http">>
                            /\ l[i].latencyMs \in {<<0>>, <<DefaultLatencyMs>>}}

\* chooseRelay as relay r's syncFromDirectory reads it: the onion to pull
\* from, or r itself when the call is skipped
chooseRelay(c, r) ==
    c.relays[selectBestRelay(c.relays)].onion

\* syncFromDirectory on relay r: its chain and queue afterwards
syncFromDirectory(c, r) ==
    LET peer == chooseRelay(c, r) IN
    IF peer = r THEN [chain |-> c.chain[r], queue |-> c.queue[r]]
    ELSE LET remoteBlocks == c.chain[peer]
             conflict == detectChainConflict(c.chain[r], remoteBlocks)
         IN  [chain |-> syncFromRemote(c.chain[r], remoteBlocks,
                                       conflict.shouldReplace),
              queue |-> IF conflict.shouldReplace
                        THEN c.queue[r] \o ReplayEntries(conflict.orphanedBlocks)
                        ELSE c.queue[r]]

\* POST /api/letters on relay r: enqueueLetter
ClusterSubmit(r) ==
    /\ cluster.submitted < MaxClusterLetters
    /\ LET l == cluster.submitted + 1 IN
       cluster' = [cluster EXCEPT
                      !.submitted = l,
                      !.queue[r] = Append(@, [id |-> l, letter |-> l,
                                              replayedFromBlock |-> -1])]
    /\ UNCHANGED <<ledgerVars, relayVars, selVars, dirVars, durVars, repVars,
                   sumVars, prbVars>>

\* relay r's sync timer, or POST /api/sync sent to it by broadcastChainUpdate
ClusterSync(r) ==
    /\ LET after == syncFromDirectory(cluster, r) IN
       cluster' = [cluster EXCEPT !.chain[r] = after.chain,
                                  !.queue[r] = after.queue]
    /\ UNCHANGED <<ledgerVars, relayVars, selVars, dirVars, durVars, repVars,
                   sumVars, prbVars>>

\* relay r's drainQueue on the head entry: ensureFreshChainBeforeWrite,
\* appendLetterBlock, shift, resolveQueueEntry
ClusterDrain(r) ==
    /\ cluster.queue[r] # <<>>
    /\ LET after == syncFromDirectory(cluster, r)
           entry == Head(cluster.queue[r])
       IN  cluster' = [cluster EXCEPT
                          !.chain[r] = appendLetterBlock(after.chain, entry.letter,
                                                         ClusterStamp(r)),
                          !.queue[r] = Tail(after.queue),
                          !.resolved = IF entry.id # 0 THEN @ \cup {entry.id}
                                       ELSE @]
    /\ UNCHANGED <<ledgerVars, relayVars, selVars, dirVars, durVars, repVars,
                   sumVars, prbVars>>

ClusterInit ==
    /\ PipelineAtRest
    /\ SelectorAtRest /\ DirectoryAtRest /\ DurableAtRest /\ ReportsAtRest
    /\ SummaryAtRest /\ ProbeAtRest
    /\ cluster \in
         {[relays |-> l,
           chain |-> [r \in ClusterOnions |->
                         <<createGenesisBlock(ClusterStamp(r))>>],
           queue |-> [r \in ClusterOnions |-> <<>>],
           resolved |-> {},
           submitted |-> 0] : l \in ClusterLists}

ClusterNext ==
    \/ \E r \in ClusterOnions : ClusterSubmit(r)
    \/ \E r \in ClusterOnions : ClusterSync(r)
    \/ \E r \in ClusterOnions : ClusterDrain(r)

ClusterSpec == ClusterInit /\ [][ClusterNext]_vars

\* every relay keeps running its sync timer and draining its queue
ClusterFairSpec ==
    /\ ClusterSpec
    /\ \A r \in ClusterOnions :
          WF_vars(ClusterSync(r)) /\ WF_vars(ClusterDrain(r))


\* ================================================================ claims
QueueIds == {pendingQueue[i].id : i \in 1..Len(pendingQueue)}
QueueLetters == {pendingQueue[i].letter : i \in 1..Len(pendingQueue)}
ChainLetters(bs) == Range(LettersOf(bs))
Settled(id) == resolvedAt[id] >= 0 \/ id \in rejected

\* C1: the blocks that the waiters of two submitted letters resolved with have
\* strictly increasing indices in the order the entries were pushed
C1_FifoIndices ==
    \A i, j \in Letters :
        (i < j /\ resolvedAt[i] >= 0 /\ resolvedAt[j] >= 0)
            => resolvedAt[i] < resolvedAt[j]

\* C2: an accepted entry that has left the queue, and that the worker is no
\* longer finishing, has its waiter settled (resolved or rejected)
C2_LeftQueueSettled ==
    \A id \in 1..submitted :
        (/\ id \notin QueueIds
         /\ ~(wEntry.id = id /\ wpc \in {"persist_ok", "persist_drop"}))
            => Settled(id)

\* C3: the step of a fork resolution that replaces the chain keeps every letter
\* accepted by this relay that was in the blocks from the divergence index
\* onward just before the step, in the ledger or in the pending queue after it
C3_ForkKeepsLetters ==
    [][\A p \in SyncProcs :
          (sync[p].pc \in {"snapshot", "requeue"} /\ sync'[p].pc = "save")
             => (Letters \cap
                   ChainLetters(SubSeq(blocks, sync[p].divergeAt + 1, Len(blocks))))
                   \subseteq (ChainLetters(blocks') \cup QueueLetters')]_vars

\* C4: a letter whose waiter resolved is in the active chain or in the queue
C4_ResolvedStays ==
    \A l \in Letters :
        resolvedAt[l] >= 0 => l \in ChainLetters(blocks) \cup QueueLetters

\* A chain is hash-linked when every block carries the hash of its own fields
\* and every block after the first names the hash of the block before it.
HashLinked(bs) ==
    /\ \A i \in 1..Len(bs) :
          bs[i].hash = <<bs[i].index, bs[i].timestamp, bs[i].previousHash, bs[i].letters>>
    /\ \A i \in 2..Len(bs) : bs[i].previousHash = bs[i - 1].hash

\* C5: once the store is initialised the active chain is non-empty and
\* hash-linked, whatever the interleaving of init, append and syncFromRemote
C5_ChainLinked == storeInit => (Len(blocks) >= 1 /\ HashLinked(blocks))

C5_Witness ==
    /\ storeInit
    /\ Len(blocks) >= 3
    /\ \E i, j \in 2..Len(blocks) :
          blocks[i].timestamp = "t_peer" /\ blocks[j].timestamp = "t_local"

\* C6: the block an append writes has index = tail index + 1 and previousHash
\* = tail hash of the chain as it is at the write, and the chain after the
\* write is the chain before it plus exactly that block
C6_AppendOnTail ==
    [][(wpc = "presync" /\ wpc' = "append_save")
          => /\ wBlock'.index = blocks[Len(blocks)].index + 1
             /\ wBlock'.previousHash = blocks[Len(blocks)].hash
             /\ wBlock'.letters = <<wEntry'.letter>>
             /\ blocks' = Append(blocks, wBlock')]_vars

C6_Witness ==
    /\ wpc = "append_save"
    /\ Len(blocks) >= 3
    /\ blocks[Len(blocks)] = wBlock
    /\ blocks[Len(blocks) - 1].timestamp = "t_peer"
    /\ timerSyncs >= 1

\* C7: syncFromRemote(r, force = false) with a hash-linked non-empty r keeps the
\* chain and reports updated = false when r is not longer than the local
\* chain, and otherwise makes the chain equal r and reports updated = true
C7_UnforcedSync ==
    (/\ lastSync.outcome # "none"
     /\ ~lastSync.force
     /\ Len(lastSync.remote) >= 1
     /\ HashLinked(lastSync.remote))
        => IF Len(lastSync.remote) <= Len(lastSync.local)
           THEN lastSync.after = lastSync.local /\ lastSync.outcome = "kept"
           ELSE lastSync.after = lastSync.remote /\ lastSync.outcome = "replaced"

C7_Witness ==
    /\ lastSync.outcome = "replaced"
    /\ ~lastSync.force
    /\ Len(lastSync.local) >= 1
    /\ lastSync.after = lastSync.remote
    /\ lastSync.remote[1] # lastSync.local[1]

AgreeOnPrefix(local, remote) ==
    \A i \in 1..Min(Len(local), Len(remote)) : local[i].hash = remote[i].hash

CleanExtension(local, remote) ==
    AgreeOnPrefix(local, remote) /\ Len(remote) > Len(local)

WinningFork(local, remote) ==
    /\ \E d \in 0..(Min(Len(local), Len(remote)) - 1) :
          local[d + 1].hash # remote[d + 1].hash
    /\ Len(remote) >= Len(local)

\* C8: when the peer's valid chain r arrives, syncFromDirectory makes the chain
\* r if r is a clean extension, starts the fork resolution (which ends with the
\* chain set to r) if r is a fork at least as long as the local chain, and in
\* every other case leaves the chain and the pending queue as they are
C8_ReplaceExactlyWhen ==
    [][\A p \in SyncProcs :
          /\ \A r \in RemoteChoices(blocks) :
                SyncBlocksReply(p, r)
                   => IF CleanExtension(blocks, r)
                      THEN blocks' = r
                      ELSE IF WinningFork(blocks, r)
                      THEN sync'[p].pc = "snapshot" /\ sync'[p].remote = r
                      ELSE /\ blocks' = blocks
                           /\ pendingQueue' = pendingQueue
                           /\ sync'[p].pc \in {"idle", "done"}
          /\ (sync[p].pc \in {"snapshot", "requeue"}
                /\ sync'[p].pc \notin {"snapshot", "requeue"})
                => blocks' = sync[p].remote]_vars

C8_Witness ==
    \E p \in SyncProcs :
        /\ sync[p].pc = "save"
        /\ sync[p].divergeAt >= 1
        /\ Len(sync[p].remote) = sync[p].divergeAt + Len(sync[p].orphans)
        /\ blocks = sync[p].remote

\* C9: a worker whose pre-write sync ended with 'No directory configured'
\* appends no block, keeps the entry at the head of the queue and backs off
C9_NoDirectoryNoAppend ==
    [][(/\ wpc = "presync"
        /\ sync["w"].pc = "done"
        /\ sync["w"].result = "No directory configured"
        /\ wpc' # wpc)
          => (blocks' = blocks /\ pendingQueue' = pendingQueue /\ wpc' = "backoff")]_vars

\* C10: with a directory configured, a worker whose pre-write sync was skipped
\* for another reason than 'No alternate relay available', or met a network
\* failure, appends no block and backs off with the entry kept
C10_AppendOnlyAfterBootstrapSkip ==
    [][(/\ wpc = "presync"
        /\ sync["w"].pc = "done"
        /\ \/ sync["w"].netFail
           \/ sync["w"].result \in {"Relay lacks URL", "Failed to fetch blocks"}
        /\ wpc' # wpc)
          => (blocks' = blocks /\ pendingQueue' = pendingQueue /\ wpc' = "backoff")]_vars

\* the score the selector is documented to rank by, in 1/60000, over the
\* latencyScore that scoreRelay computed
WeightedScore(relay) ==
    IF relay.gfwBlocked
    THEN 2 * latencyScore(relay) + 30 * Opt(relay.reachability, 50)
           + 30 * Opt(relay.chainFreshness, 50)
    ELSE 5 * (2 * latencyScore(relay) + 30 * Opt(relay.reachability, 50)
                + 30 * Opt(relay.chainFreshness, 50))

OtherRelays(relays) == {i \in 1..Len(relays) : relays[i].onion # SelfOnion}

\* C11: syncFromDirectory answers 'No alternate relay available' only when the
\* directory lists no relay but the relay itself, and otherwise its peer is a
\* highest-scoring relay among the listed relays other than itself
C11_PeerIsBestOther ==
    selector.done =>
        LET rs == selector.relays IN
        /\ selector.outcome = "No alternate relay available"
              => OtherRelays(rs) = {}
        /\ OtherRelays(rs) # {}
              => /\ selector.best \in OtherRelays(rs)
                 /\ \A j \in OtherRelays(rs) :
                       WeightedScore(rs[j]) <= WeightedScore(rs[selector.best])

\* C19: selectBestRelay returns a relay of maximum score, the earliest in the
\* input among those of maximum score, and nothing on an empty list
C19_BestIsFirstMaximum ==
    selector.done =>
        LET rs == selector.relays
            b == selector.best
        IN IF rs = <<>> THEN b = 0
           ELSE /\ b \in 1..Len(rs)
                /\ \A j \in 1..Len(rs) :
                      /\ WeightedScore(rs[j]) <= WeightedScore(rs[b])
                      /\ j < b => WeightedScore(rs[j]) < WeightedScore(rs[b])

C19_Witness ==
    /\ selector.done
    /\ Len(selector.relays) = 3
    /\ selector.best = 2
    /\ selector.relays[1].gfwBlocked
    /\ selector.relays[3] # selector.relays[2]
    /\ WeightedScore(selector.relays[3]) = WeightedScore(selector.relays[2])

\* C20: latencyScore = max(0, 1 - min(latencyMs, 3000)/3000), with a latencyMs
\* that is missing, zero or negative taken as 1500 ms (times 3000 here)
C20_LatencyScore ==
    selector.done =>
        \A i \in 1..Len(selector.relays) :
            LET given == selector.relays[i].latencyMs
                ms == IF given = <<>> \/ given[1] <= 0 THEN 1500 ELSE given[1]
            IN selector.latencyScores[i]
                  = (IF ms >= 3000 THEN 0 ELSE 3000 - ms)

\* the document the directory answers from
Registry == IF dirStore.data = <<>> THEN dirStore.file ELSE dirStore.data[1]

\* C16: no step of the directory shortens the canonical manifest
C16_CanonicalNeverShrinks ==
    [][Len(Registry'.canonicalManifest) >= Len(Registry.canonicalManifest)]_vars

IsStrictPrefix(a, b) == Len(a) < Len(b) /\ \A i \in 1..Len(a) : a[i] = b[i]

\* C17: the syncStatus an upsert writes classifies the relay's hash list against
\* the canonical manifest written with it: strict prefix (the empty list
\* included) -> needsSync with missingCount the length difference; a difference
\* within the shorter length -> needsRepair; otherwise neither
C17_SyncStatusClassifies ==
    [][\A c \in 1..MaxDirCalls :
          (dirCalls[c].pc \in {"new", "load"} /\ dirCalls'[c].pc = "save"
             /\ dirCalls'[c].kind = "upsert")
          => LET canonical == Registry'.canonicalManifest
                 relay == Registry'.relays[dirCalls'[c].onion]
                 st == relay.syncStatus
             IN IF IsStrictPrefix(relay.chainSummary, canonical)
                THEN /\ st.needsSync /\ ~st.needsRepair
                     /\ st.missingCount = Len(canonical) - Len(relay.chainSummary)
                ELSE IF HashDiffAt(canonical, relay.chainSummary) # {}
                THEN st.needsRepair /\ ~st.needsSync
                ELSE ~st.needsSync /\ ~st.needsRepair]_vars

LastApplied(kind, onion) ==
    {c \in Applied :
        /\ dirCalls[c].kind = kind /\ dirCalls[c].onion = onion
        /\ \A d \in Applied :
              (dirCalls[d].kind = kind /\ dirCalls[d].onion = onion)
                 => dirCalls[d].at <= dirCalls[c].at}

\* C18: the registry holds the effect of every call made on it: the relay of
\* every upsert with the hash list of the latest upsert for its onion, and the
\* sampling of the latest metrics update made on a relay already registered
C18_NoLostUpdate ==
    (\A c \in 1..MaxDirCalls : dirCalls[c].kind # "list") =>
    \A c \in Applied :
        LET call == dirCalls[c] IN
        /\ call.kind = "upsert"
              => /\ call.onion \in DOMAIN Registry.relays
                 /\ c \in LastApplied("upsert", call.onion)
                       => Registry.relays[call.onion].chainSummary = call.hashes
        /\ (/\ call.kind = "metrics"
            /\ c \in LastApplied("metrics", call.onion)
            /\ \E u \in Applied : /\ dirCalls[u].kind = "upsert"
                                  /\ dirCalls[u].onion = call.onion
                                  /\ dirCalls[u].at < call.at)
              => /\ call.onion \in DOMAIN Registry.relays
                 /\ Registry.relays[call.onion].metricsSampledAt = c

\* positions of the chain whose block carries letter l
BlocksWith(l, bs) == {i \in 1..Len(bs) : l \in Range(bs[i].letters)}

\* C12: a letter accepted once is appended to the relay's ledger at most
\* once, in every execution: across retries after retryable errors and across
\* a crash and restart between the ledger append and the persisting of the
\* shifted queue.
C12_AppendedAtMostOnce ==
    \A l \in Letters :
        /\ Cardinality(BlocksWith(l, blocks)) <= 1
        /\ Cardinality(BlocksWith(l, chainFile)) <= 1

\* no queue mutation is under way: no persistQueue call in flight and no
\* drainQueue between a shift and the end of its persistQueue
NoMutationUnderWay ==
    /\ \A w \in Writers : persist[w].pc = "idle"
    /\ \A s \in Workers : drain[s].pc \notin {"persist_ok", "persist_drop"}

\* C13: after each completed queue mutation (enqueue, shift on success, shift
\* on permanent reject, clear) the persisted queue equals the in-memory queue:
\* whenever no mutation is under way, queue.json holds this.pendingQueue.
C13_PersistedIsInMemory == NoMutationUnderWay => queueFile = pendingQueue

\* C14: after ClearQueue the waiter of every entry that was pending is
\* rejected with the cancellation error: once clearQueue and the enqueueLetter
\* call of a cleared entry have returned, the entry's waiter is rejected (in
\* a process that has not restarted, whose waiters all still exist).
C14_ClearedAreRejected ==
    (restarts = 0 /\ persist[ClearWriter].pc = "idle") =>
        \A id \in cleared : id \notin enqueuing => id \in rejected

ActiveWorkers == {s \in Workers : drain[s].pc # "idle"}

ActiveRuns == {r \in Runs : reportRuns[r].pc # "idle"}
WaitingCallers == {c \in Callers : reportCallers[c] # 0}

\* C21: at most one ReportToDirectory run is in progress at any time; a
\* caller arriving while a report is in progress starts no second request and
\* waits for the result of the run in progress.
C21_SingleFlight ==
    /\ Cardinality(ActiveRuns) <= 1
    /\ \A c \in WaitingCallers :
           reportCallers[c] = reportPromise /\ reportPromise \in ActiveRuns

\* three callers hold the one run in progress
C21_Witness ==
    /\ Cardinality(ActiveRuns) = 1
    /\ Cardinality(WaitingCallers) >= 3

\* C22: in every reachable state at most one report retry timer is
\* outstanding.
C22_OneRetryTimer ==
    /\ Cardinality(reportTimeouts) <= 1
    /\ reportTimeouts # {} => reportRetryTimer \in TimeoutIds(reportTimeouts)

\* a second report failed while the retry timer of the first was outstanding
C22_Witness ==
    /\ Cardinality(reportTimeouts) = 1
    /\ consecutiveReportFailures >= 2
    /\ \E t \in reportTimeouts : t.setAtFailure = 1

\* C23: after the k-th consecutive failed report the counter is k and a
\* one-shot retry is scheduled to fire min(30000, 2000*k) ms after that
\* failure, that delay being the backoffMs of the report info; a successful
\* report resets the counter to 0.
C23_BackoffAfterFailure ==
    [][/\ \A r \in Runs : RunFailed(r) =>
            LET k == consecutiveReportFailures' IN
            /\ k = consecutiveReportFailures + 1
            /\ lastReportInfo'.consecutiveFailures = k
            /\ lastReportInfo'.backoffMs = Min(30000, 2000 * k)
            /\ \E t \in reportTimeouts' :
                   t.setAtFailure = k /\ t.delayMs = lastReportInfo'.backoffMs
       /\ \A r \in Runs : RunDelivered(r) => consecutiveReportFailures' = 0]_vars

\* C24: after a successful report whose response carries genesisHash g: if g
\* differs from the hash of block 0 of the active chain, the active chain is
\* switched to the chain keyed g and the report info records genesisMatch =
\* false; if g equals it, the active chain and its blocks stay as they are.
C24_ReplyGenesis ==
    [][/\ \A g \in DirectoryGenesisChoices : ReportReply(g) =>
            IF getGenesisHash(blocks) # g
            THEN /\ report'.mismatch
                 /\ \/ currentGenesisHash = g
                    \/ report'.pc = "switch" /\ report'.genesis = g
            ELSE /\ ~report'.mismatch
                 /\ report'.pc = "idle"
                 /\ blocks' = blocks
       /\ ReportSwitch => currentGenesisHash' = report.genesis]_vars

\* C25: in every state reachable through init, SyncFromDirectory and
\* ReportToDirectory the active-genesis pointer equals the hash of block 0 of
\* the chain held by the active block store.
C25_PointerIsGenesis == currentGenesisHash = getGenesisHash(blocks)

\* the places of the queue q that hold a letter replayed by the fork
\* resolution of sync run p
ReplayedPlaces(p, q) ==
    {i \in 1..Len(q) : q[i] \in Range(ReplayEntries(sync[p].orphans))}

\* C26: after fork resolution the replayed (orphaned) letters stand in the
\* pending queue after every letter that was submitted while the sync was in
\* flight: a letter accepted while a fork resolution is in flight does not
\* come to stand behind a letter that resolution replayed.
C26_ReplayedAfterSubmitted ==
    [][\A l \in Letters : \A p \in SyncProcs :
          (AcceptLetter(l) /\ sync[p].pc \in {"requeue", "save"})
             => \A i \in ReplayedPlaces(p, pendingQueue') : i > Len(pendingQueue')]_vars

\* C27: syncFromRemote called with an empty remote block list returns
\* {updated: false} and leaves the local chain unchanged.
C27_EmptyRemoteKept ==
    (lastSync.outcome # "none" /\ lastSync.remote = <<>>)
        => (lastSync.outcome = "kept" /\ lastSync.after = lastSync.local)

\* every block of the list carries the hash of its other fields
SelfHashed(bs) ==
    \A i \in 1..Len(bs) :
        bs[i].hash = <<bs[i].index, bs[i].timestamp, bs[i].previousHash, bs[i].letters>>

\* C28 as stated: validateChain(blocks) is ok if and only if every block of
\* the list is a fixed point of buildBlockHash.
C28_OkIffSelfHashed ==
    lastSync.outcome # "none"
        => ((lastSync.outcome # "throw") <=> SelfHashed(lastSync.remote))

\* C28 as amended: validateChain(blocks) is ok if and only if the list is not
\* empty, every block is a fixed point of buildBlockHash and every block after
\* the first names the hash of the block before it as its previousHash.
C28_OkIffLinked ==
    lastSync.outcome # "none"
        => ((lastSync.outcome # "throw")
               <=> (Len(lastSync.remote) >= 1 /\ HashLinked(lastSync.remote)))

\* a list of self-hashed blocks was refused for a broken link alone
C28_Witness ==
    /\ lastSync.outcome = "throw"
    /\ Len(lastSync.remote) > 1
    /\ SelfHashed(lastSync.remote)

\* C29: after any sequence of init, appendLetterBlock and syncFromRemote,
\* getChainSummary().length is the number of blocks, its hashes are the
\* blocks' hashes in order, latestHash is the last block's hash and
\* getManifest has one entry per block; each appendLetterBlock increases the
\* length by exactly 1.
C29_SummaryOfChain ==
    [][/\ LedgerSummary =>
            LET sum == lastSummary'.summary[1] IN
            /\ sum.length = Len(blocks)
            /\ Len(sum.hashes) = Len(blocks)
            /\ \A i \in 1..Len(blocks) : sum.hashes[i] = blocks[i].hash
            /\ sum.latestHash = blocks[Len(blocks)].hash
            /\ Len(lastSummary'.manifest) = Len(blocks)
       /\ \A l \in Letters : LedgerAppend(l) =>
            getChainSummary(blocks').length = getChainSummary(blocks).length + 1]_vars

\* the summary of a three-block chain that a sync has put in place of the
\* chain the ledger had appended to
C29_Witness ==
    /\ lastSummary.read
    /\ lastSummary.summary[1].length = 3
    /\ lastSync.outcome = "replaced"
    /\ Len(lastSync.local) >= 2
    /\ lastSummary.summary[1].hashes[3] = blocks[3].hash

\* the record holds what the probe's outcome calls for
HoldsOutcome(relay, out) ==
    IF out.kind = "response" /\ ResponseOk(out.status)
    THEN /\ relay.latencyMs = <<out.elapsed>>
         /\ relay.reachability = <<100>>
         /\ relay.gfwBlocked = <<FALSE>>
    ELSE IF out.kind = "response"
    THEN /\ relay.latencyMs = <<>>
         /\ relay.reachability = <<0>>
         /\ relay.gfwBlocked = <<out.status = 403>>
    ELSE /\ relay.latencyMs = <<>>
         /\ relay.reachability = <<0>>
         /\ relay.gfwBlocked =
               <<\/ out.error.name = "AbortError"
                 \/ out.error.code \in {"ECONNRESET", "ENETRESET", "ECONNREFUSED",
                                        "EHOSTUNREACH", "ETIMEDOUT"}
                 \/ out.error.messageMatches>>

\* C30: when a probe of a relay completes, the relay's stored record holds
\* the probe's outcome whatever its metrics were before: elapsed, 1 and false
\* on 2xx; null, 0 and (status = 403) on any other status; null, 0 and true
\* exactly for the listed error classes on a network error.
C30_RecordHoldsOutcome ==
    [][/\ \A out \in ProbeOutcomes :
              ProbeReply(out) /\ probe'.pc = "save" => HoldsOutcome(probed'[1], out)
       /\ ProbeConsumed =>
              /\ probed'[1].latencyMs = probe.metrics.latencyMs
              /\ probed'[1].latencyMs # <<>>
              /\ probed'[1].reachability = <<100>>
              /\ probed'[1].gfwBlocked = <<FALSE>>]_vars

Waiters == <<queueDeferred, resolvedAt, rejected>>

C32_DropLeavesLedger ==
    [][(restarts = 0 /\ clears = 0) =>
        \A s \in Workers :
          /\ DrainAppendSaveFailed(s) =>
                /\ Head(pendingQueue) = drain[s].entry
                /\ pendingQueue' = Tail(pendingQueue)
                /\ BlocksWith(drain[s].entry.letter, blocks') = {}
          /\ DrainWriteFailed(s) /\ drain[s].pc = "persist_ok" =>
                /\ pendingQueue' = pendingQueue
                /\ BlocksWith(drain[s].entry.letter, blocks') = {}
          /\ DrainWritten(s) /\ drain[s].pc = "persist_drop" =>
                /\ drain[s].entry \notin Range(pendingQueue')
                /\ drain[s].entry \notin Range(queueFile')
                /\ drain[s].entry.id \in queueDeferred => drain[s].entry.id \in rejected'
                /\ drain' = LoopHead(drain, s, pendingQueue')]_vars

\* one entry per letter of the blocks bs, in block order then letter order,
\* tagged with the index of the letter's block
RECURSIVE OrphanEntries(_)
OrphanEntries(bs) ==
    IF bs = <<>> THEN <<>>
    ELSE [j \in 1..Len(bs[1].letters) |->
             [id |-> 0, letter |-> bs[1].letters[j], replayedFromBlock |-> bs[1].index]]
         \o OrphanEntries(Tail(bs))

\* C33: a fork resolution at divergence d appends to the end of the pending
\* queue exactly one entry per letter of the local blocks from index d
\* onward, in block order then letter order, with the letter unchanged and
\* replayedFromBlock the index of its block; a replayed entry is appended as
\* a fresh one-letter block with the same letter, and when it has been
\* drained its letter is in the active chain.
C33_ReplayedOnNewChain ==
    [][/\ \A p \in SyncProcs :
            SyncSnapshotDone(p) =>
               pendingQueue' = pendingQueue
                   \o OrphanEntries(SubSeq(blocks, sync[p].divergeAt + 1, Len(blocks)))
       /\ (WorkerAppend /\ wEntry.replayedFromBlock >= 0) =>
               /\ Len(blocks') = Len(blocks) + 1
               /\ blocks'[Len(blocks')].letters = <<wEntry.letter>>
       /\ (WorkerPersisted /\ wEntry.replayedFromBlock >= 0) =>
               wEntry.letter \in ChainLetters(blocks')]_vars

\* C34: whenever the pending queue is non-empty, a drainQueue worker is
\* draining, or a crash-retry timer is pending, or a call that ends in
\* processQueueSoon is under way (an enqueueLetter awaiting its persistQueue);
\* and the handler of a crashed worker marks it idle and, on a non-empty
\* queue, sets the retry timer.
C34_QueueHasDrainer ==
    /\ [](pendingQueue # <<>> =>
            \/ ActiveWorkers # {}
            \/ retryTimers > 0
            \/ enqueuing # {})
    /\ [][\A s \in Workers :
            (DrainWriteFailed(s) /\ drain[s].pc = "persist_drop") =>
                /\ ~processingQueue'
                /\ drain'[s].pc = "idle"
                /\ pendingQueue # <<>> => retryTimers' = retryTimers + 1]_vars

\* C35: a waiter rejected by the write pipeline means its letter was not
\* committed, for any interleaving of clearQueue with the running worker: no
\* block is appended for an entry whose waiter clearQueue has rejected, and
\* when clearQueue or the drop of a permanently failed entry rejects a waiter
\* the entry's letter is in no block of the ledger.
C35_RejectedNotCommitted ==
    [][/\ \A s \in Workers :
            /\ DrainAppend(s) => drain[s].entry.id \notin (cleared \cap rejected)
            /\ (DrainWritten(s) /\ drain[s].pc = "persist_drop") =>
                  \A id \in rejected' \ rejected : BlocksWith(id, blocks') = {}
       /\ clearQueue => \A id \in rejected' \ rejected : BlocksWith(id, blocks') = {}]_vars

\* C36: when clearQueue ran while the worker was processing an entry and a
\* letter was accepted before that processing finished, the completion of the
\* old entry does not take the new entry off the queue: the shift that ends
\* the processing of an entry removes no other entry.
C36_ShiftTakesOwnEntry ==
    [][\A s \in Workers :
          (DrainReported(s) \/ DrainAppendSaveFailed(s)) =>
              \A i \in 1..Len(pendingQueue) :
                  pendingQueue[i] # drain[s].entry
                      => pendingQueue[i] \in Range(pendingQueue')]_vars

\* C37: when syncFromDirectory detects a fork that calls for replacement but
\* the fetched chain fails validation, so that the local chain is not
\* replaced, the sync leaves the pending queue as it is: orphaned letters are
\* requeued only when the local chain is replaced.
C37_NoRequeueWithoutReplace ==
    [][\A p \in SyncProcs :
          ((SyncSnapshotDone(p) \/ SyncRequeuePersisted(p))
                /\ ~validateChain(sync[p].remote))
             => /\ pendingQueue' = pendingQueue
                /\ blocks' = blocks]_vars

\* C38: under any interleaving of worker appends and syncFromDirectory calls
\* (timer, nudge, pre-write), with no report switching the active genesis,
\* the active chain is never shorter after a step than before it.
C38_LengthNeverDecreases == [][Len(blocks') >= Len(blocks)]_vars


\* the relays hold one chain, and it holds every letter resolved anywhere
ClusterAgreed ==
    /\ \A r, o \in ClusterOnions : cluster.chain[r] = cluster.chain[o]
    /\ \A r \in ClusterOnions : cluster.resolved \subseteq ChainLetters(cluster.chain[r])

\* C39: with fixed relay metrics, no further letters submitted and every relay
\* syncing and draining for ever, the relays of a cluster end up holding the
\* same chain for good, and that chain holds every letter whose waiter was
\* resolved on any relay
C39_ClusterConverges == <>[]ClusterAgreed

=============================================================================
